---- MODULE Spec2Model ----
(***************************************************************************)
(* Quiz distribution and moderation engine of src/bot.py (class QuizBot).  *)
(*                                                                         *)
(* The document store is modelled as sequences of records in insertion     *)
(* order (what MongoDB.find returns); self.quizzes and self.groups are the *)
(* in-process copies of those sequences.  One cooperative task runs        *)
(* start_scheduler; inbound updates are handled one at a time (the         *)
(* Application is built without concurrent updates), so at most one        *)
(* handler coroutine is suspended at any moment.  Every action below is    *)
(* the code between two suspension points (await on the chat platform or   *)
(* on asyncio.sleep); pymongo calls are blocking and never yield.          *)
(***************************************************************************)
EXTENDS Integers, Sequences, FiniteSets, TLC

VARIABLES
    dbQuizzes,              \* collection 'quizzes'
    dbGroups,               \* collection 'groups'
    dbReports,              \* collection 'quiz_reports'
    quizzes,                \* self.quizzes
    groups,                 \* self.groups
    recently_sent_quizzes,  \* self.recently_sent_quizzes
    stats,                  \* self.stats
    sched,                  \* the start_scheduler task
    handler,                \* the handler coroutine in progress, if any
    broadcast_mode,         \* self.broadcast_mode[ADMIN_USER_ID]
    now,                    \* datetime.now(), as a logical clock
    nextId,                 \* next ObjectId the store hands out
    hist,                   \* observations of the run (not program state)
    ret,                    \* result of the last pure call (pure-function specs)
    dbSettings,             \* document 'bot_settings' of collection 'settings'
    settings,               \* self.settings
    quiz_interval,          \* self.quiz_interval, in seconds
    waiting_for_interval    \* context.user_data['waiting_for_interval'] of the admin

intervalVars == <<dbSettings, settings, quiz_interval, waiting_for_interval>>

vars == <<dbQuizzes, dbGroups, dbReports, quizzes, groups,
          recently_sent_quizzes, stats, sched, handler, broadcast_mode,
          now, nextId, hist, ret, intervalVars>>

----------------------------------------------------------------------------
(* Bounds of the model *)

MaxPool == 4          \* quizzes in a drawn selector input
MaxStamp == 2         \* distinct last_sent values in a drawn selector input
MaxCycles == 2        \* scheduler cycles in a run
MaxIngests == 1       \* polls sent to the bot in a run

(* Program constants *)

max_recent_track == 10
FewQuizzes == 3
DefaultInterval == 3600

None == 0             \* Python None, for quiz ids and timestamps

----------------------------------------------------------------------------
(* Sequence helpers *)

Range(s) == {s[i] : i \in 1..Len(s)}

InSeq(x, s) == \E i \in 1..Len(s) : s[i] = x

Last(s, n) == IF Len(s) > n THEN SubSeq(s, Len(s) - n + 1, Len(s)) ELSE s

RECURSIVE SetToSeq(_)
SetToSeq(S) ==
    IF S = {} THEN <<>>
    ELSE LET m == CHOOSE x \in S : \A y \in S : x <= y
         IN  <<m>> \o SetToSeq(S \ {m})

RECURSIVE InsertSorted(_, _)
InsertSorted(q, s) ==
    IF s = <<>> THEN <<q>>
    ELSE IF q.last_sent < Head(s).last_sent THEN <<q>> \o s
    ELSE <<Head(s)>> \o InsertSorted(q, Tail(s))

RECURSIVE SortByLastSent(_)
SortByLastSent(s) ==
    IF s = <<>> THEN <<>>
    ELSE InsertSorted(s[Len(s)], SortByLastSent(SubSeq(s, 1, Len(s) - 1)))

----------------------------------------------------------------------------
(* Selector: get_random_quiz *)

\* A stored quiz; is_anonymous is the setting of the poll it was made from.
Quiz(id, question, active, last) ==
    [id |-> id, question |-> question, is_active |-> active,
     sent_count |-> 0, manual_sent_count |-> 0, last_sent |-> last,
     is_anonymous |-> FALSE]

ActiveQuizzesAll(qs) == qs

ActiveQuizzes(qs) == SelectSeq(qs, LAMBDA q : q.is_active)

NotRecentAll(act, recent) == act

NotRecent(act, recent) == SelectSeq(act, LAMBDA q : ~InSeq(q.id, recent))

AvailableQuizzes(act, recent) ==
    LET fresh == NotRecent(act, recent)
    IN  IF fresh = <<>> THEN SortByLastSent(act) ELSE fresh

\* The ids random.choice may return; {None} when the function returns None.
GetRandomQuiz(qs, recent) ==
    IF qs = <<>> THEN {None}
    ELSE LET act == ActiveQuizzes(qs)
         IN  IF act = <<>> THEN {None}
             ELSE IF Len(act) <= FewQuizzes THEN {q.id : q \in Range(act)}
             ELSE {q.id : q \in Range(AvailableQuizzes(act, Last(recent, max_recent_track)))}

QuizById(qs, id) == CHOOSE q \in Range(qs) : q.id = id

----------------------------------------------------------------------------
(* Recent-sent window: track_recent_quiz *)

RECURSIVE RemoveFirst(_, _)
RemoveFirst(s, x) ==
    IF s = <<>> THEN <<>>
    ELSE IF Head(s) = x THEN Tail(s)
    ELSE <<Head(s)>> \o RemoveFirst(Tail(s), x)

TrimNever(s, n) == s

Trim(s, n) == Last(s, n)

AppendOnly(w, id) == Trim(w \o <<id>>, max_recent_track)

TrackRecentQuiz(w, id) ==
    Trim((IF InSeq(id, w) THEN RemoveFirst(w, id) ELSE w) \o <<id>>, max_recent_track)

----------------------------------------------------------------------------
(* Document store: replace_one / delete_one by _id, and the saves *)

Group(id, chat, active) ==
    [id |-> id, chat_id |-> chat, is_active |-> active,
     quizzes_received |-> 0, manual_quizzes_received |-> 0]

\* replace_one({'_id': doc['_id']}, doc): no upsert, a missing _id is a no-op.
ReplaceOne(coll, doc) ==
    [i \in 1..Len(coll) |-> IF coll[i].id = doc.id THEN doc ELSE coll[i]]

DeleteNone(coll, ids) == coll

DeleteIds(coll, ids) == SelectSeq(coll, LAMBDA d : d.id \notin ids)

PutObjectCopy(list, obj) == list

\* A Python object reachable from several lists: writing a field through one
\* reference changes what every list holding that object shows.
PutObject(list, obj) == ReplaceOne(list, obj)

ActiveGroups(gs) == SelectSeq(gs, LAMBDA g : g.is_active)

MarkInactiveNot(g) == g

\* except-clause of the send loops: group['is_active'] = False
MarkInactive(g) == [g EXCEPT !.is_active = FALSE]

AfterFailureAbort(i, n) == n + 1

\* The except-clause sits inside the for loop: after a failed send the loop
\* goes on with the next position of active_groups.
AfterFailure(i, n) == i + 1

QuizTimePrefix == <<"Q", "u", "i", "z", " ", "T", "i", "m", "e", ":", " ">>

noPoll ==
    [sent |-> FALSE, question |-> <<>>, is_anonymous |-> FALSE,
     allows_multiple_answers |-> FALSE, open_period |-> 0]

SendPollAsStored(quiz) ==
    [sent |-> TRUE, question |-> QuizTimePrefix \o quiz.question,
     is_anonymous |-> quiz.is_anonymous,
     allows_multiple_answers |-> FALSE, open_period |-> 0]

\* The arguments of bot.send_poll in send_quiz_to_group (lines 532-541).
SendPoll(quiz) ==
    [sent |-> TRUE, question |-> QuizTimePrefix \o quiz.question,
     is_anonymous |-> FALSE, allows_multiple_answers |-> FALSE,
     open_period |-> 0]

\* Lines 550-552: the tally of the chat, created at 0, is raised by one.
Engage(eng, chat) ==
    [c \in DOMAIN eng \cup {chat} |->
        IF c = chat THEN (IF c \in DOMAIN eng THEN eng[c] ELSE 0) + 1 ELSE eng[c]]

----------------------------------------------------------------------------
(* State after construction: QuizBot.__init__ *)

\* Task records.  active is the task's active_groups list; cur says that the
\* list still holds the very objects of self.groups (no reload since), same
\* that the handler's list holds the objects of the scheduler's list.
\* sleep is the argument of the asyncio.sleep call the task is suspended in.
schedIdle ==
    [pc |-> "waiting", quiz |-> None, active |-> <<>>, i |-> 0, sent_to |-> 0,
     cur |-> FALSE, sleep |-> DefaultInterval]

SleepingDefault(interval) == schedIdle

\* await asyncio.sleep(self.quiz_interval), line 2229: the argument is
\* evaluated when the call is made.
Sleeping(interval) == [schedIdle EXCEPT !.sleep = interval]

handlerIdle ==
    [pc |-> "idle", chat |-> None, quiz |-> None, group |-> None,
     active |-> <<>>, i |-> 0, sent_to |-> 0, cur |-> FALSE, same |-> FALSE]

\* What an observer of one dispatch batch records: the chats of the batch's
\* active_groups (n), the chats a send was attempted to, in order (tried),
\* the chats whose send raised (failed), the stored groups when the batch
\* started (pre) and when it finished (post), and the batch's sent_to.
batchNone ==
    [state |-> "none", n |-> <<>>, tried |-> <<>>, failed |-> {},
     pre |-> <<>>, post |-> <<>>, sent_to |-> 0]

\* What an observer of one /rquiz command records: how far it got (state),
\* the chat, and what the store and the bot held when the command arrived:
\* the stored quizzes, the manual_quizzes_received of the chat's group (0
\* for a chat that had no group), stats['manual_quizzes_sent'] and the
\* window, and how many scheduler cycles had started (cycle).  delivered
\* lists the chats of the /rquiz polls that were sent.
manualNone ==
    [state |-> "none", chat |-> None, quizzes |-> <<>>, received |-> 0,
     total |-> 0, window |-> <<>>, cycle |-> 0, delivered |-> <<>>]

\* tracked is the id of the latest track_recent_quiz call (None before the
\* first call and after a reset), tracks the number of calls.
\* limit is the number of scheduler cycles the run goes on for, picks the
\* quizzes send_random_quiz selected, cycle by cycle, and poll the arguments
\* of the send_poll calls of the latest selected quiz.
\* reports counts the /qreport commands, dup records that a /qreport whose
\* report id was already stored and resolved has been rejected by the store.
\* manual is what an observer of the latest /rquiz records, reactivated the
\* chat whose group the latest /rquiz switched back to active and the number
\* of scheduler cycles started by then.  joins counts the /start commands in
\* group chats, presses the presses of a "Remove from Group" button and
\* admin says whether the latest press came from ADMIN_USER_ID.
histInit ==
    [cycles |-> 0, batches |-> 0, manuals |-> 0, resets |-> 0, ingests |-> 0,
     tracked |-> None, tracks |-> 0, reports |-> 0, dup |-> FALSE,
     sched |-> batchNone, bcast |-> batchNone,
     limit |-> MaxCycles, picks |-> <<>>, poll |-> noPoll,
     manual |-> manualNone, reactivated |-> [chat |-> None, cycle |-> 0],
     joins |-> 0, presses |-> 0, admin |-> TRUE]

EmptyTally == [c \in {} |-> 0]

load_stats ==
    [total_quizzes_sent |-> 0, manual_quizzes_sent |-> 0, quizzes_added |-> 0,
     total_broadcasts_sent |-> 0, quiz_reports_received |-> 0,
     quizzes_deleted_by_reports |-> 0, group_engagement |-> EmptyTally]

noRet == [op |-> "none", val |-> None]

\* load_settings with no stored document (lines 129-145)
load_settings == [quiz_interval |-> DefaultInterval]

\* Lines 113 and 117 of __init__ with the stored settings document s.
SettingsLoaded(s) ==
    /\ dbSettings = s
    /\ settings = s
    /\ quiz_interval = s.quiz_interval
    /\ waiting_for_interval = FALSE

\* __init__ with the store holding the quizzes qs, the groups gs and the
\* reports rs: both caches are loaded from the store, the window is empty.
Constructed(qs, gs, rs) ==
    /\ dbQuizzes = qs
    /\ dbGroups = gs
    /\ dbReports = rs
    /\ quizzes = qs
    /\ groups = gs
    /\ recently_sent_quizzes = <<>>
    /\ stats = load_stats
    /\ sched = schedIdle
    /\ handler = handlerIdle
    /\ broadcast_mode = FALSE
    /\ now = 1
    /\ nextId = Len(qs) + Len(gs) + 1
    /\ hist = histInit
    /\ ret = noRet
    /\ SettingsLoaded(load_settings)

----------------------------------------------------------------------------
(* SpecSelect: get_random_quiz applied to drawn pools and windows *)

Q0 == <<"q">>

\* Pools of n quizzes, ids 1..n in store order, each active or not and with
\* any last_sent value (None when the quiz was never sent).
DrawnPools ==
    UNION {
      { [i \in 1..n |-> Quiz(i, Q0, f[i].a, f[i].t)] :
          f \in [1..n -> [a : BOOLEAN, t : 0..MaxStamp]] }
      : n \in 0..MaxPool }

\* Windows: ids in any of the MaxPool positions, including ids whose quiz is
\* no longer in the pool.
DrawnWindows == {SetToSeq(S) : S \in SUBSET (1..MaxPool)}

\* A quiz id enters the window only after its last_sent has been written
\* (send_random_quiz 491-495, send_immediate_quiz 610-614).
WindowConsistent(qs, w) ==
    \A q \in Range(qs) : InSeq(q.id, w) => q.last_sent # None

InitSelect ==
    /\ quizzes \in DrawnPools
    /\ recently_sent_quizzes \in DrawnWindows
    /\ WindowConsistent(quizzes, recently_sent_quizzes)
    /\ dbQuizzes = quizzes
    /\ dbGroups = <<>>
    /\ dbReports = <<>>
    /\ groups = <<>>
    /\ stats = load_stats
    /\ sched = schedIdle
    /\ handler = handlerIdle
    /\ broadcast_mode = FALSE
    /\ now = MaxStamp + 1
    /\ nextId = MaxPool + 1
    /\ hist = histInit
    /\ ret = noRet
    /\ SettingsLoaded(load_settings)

CallGetRandomQuiz ==
    /\ ret.op = "none"
    /\ \E id \in GetRandomQuiz(quizzes, recently_sent_quizzes) :
          ret' = [op |-> "get_random_quiz", val |-> id]
    /\ recently_sent_quizzes' =
          IF Len(ActiveQuizzes(quizzes)) > FewQuizzes
          THEN Last(recently_sent_quizzes, max_recent_track)
          ELSE recently_sent_quizzes
    /\ UNCHANGED <<dbQuizzes, dbGroups, dbReports, quizzes, groups, stats,
                   sched, handler, broadcast_mode, now, nextId, hist>>
    /\ UNCHANGED intervalVars

NextSelect == CallGetRandomQuiz

SpecSelect == InitSelect /\ [][NextSelect]_vars

ActiveIds == {q.id : q \in {x \in Range(quizzes) : x.is_active}}

WindowIds == Range(recently_sent_quizzes)

Selected == ret.op = "get_random_quiz"

MinLastSent ==
    LET stamps == {q.last_sent : q \in {x \in Range(quizzes) : x.is_active}}
    IN  CHOOSE t \in stamps : \A u \in stamps : t <= u

\* C4: with more than 3 active quizzes, all of them in the recent window,
\* the selected quiz is an active quiz with the minimum last_sent.
C4_OldestWhenSaturated ==
    (Selected /\ Cardinality(ActiveIds) > FewQuizzes /\ ActiveIds \subseteq WindowIds)
        => /\ ret.val \in ActiveIds
           /\ QuizById(quizzes, ret.val).last_sent = MinLastSent

\* C5: with more than 3 active quizzes, one of them outside the recent
\* window, the selected quiz is active and its id is not in the window.
C5_AvoidsRecent ==
    (Selected /\ Cardinality(ActiveIds) > FewQuizzes /\ ~(ActiveIds \subseteq WindowIds))
        => /\ ret.val \in ActiveIds
           /\ ret.val \notin WindowIds

C5_Witness ==
    /\ Selected
    /\ Cardinality(ActiveIds) > FewQuizzes
    /\ Cardinality(ActiveIds \ WindowIds) = 1
    /\ ret.val \in ActiveIds \ WindowIds

\* C6: no active quiz gives None; a pool of 1 to 3 active quizzes gives a
\* member of the pool whatever the window holds; an inactive quiz is never
\* returned.
C6_SmallPools ==
    Selected =>
        /\ (ActiveIds = {}) => ret.val = None
        /\ (Cardinality(ActiveIds) \in 1..FewQuizzes) => ret.val \in ActiveIds
        /\ ret.val # None => ret.val \in ActiveIds

C6_Witness ==
    /\ Selected
    /\ Cardinality(ActiveIds) = FewQuizzes
    /\ Len(quizzes) > FewQuizzes
    /\ ActiveIds \subseteq WindowIds
    /\ ret.val \in ActiveIds

----------------------------------------------------------------------------
(* Scheduler task: start_scheduler and send_random_quiz *)

MaxGroups == 3        \* registered groups

Chats(gs) == [i \in 1..Len(gs) |-> gs[i].chat_id]

BatchStart(gs, pre) ==
    [state |-> "running", n |-> Chats(gs), tried |-> <<>>, failed |-> {},
     pre |-> pre, post |-> <<>>, sent_to |-> 0]

\* Lines 489-500 of send_random_quiz for the selected quiz id; the store
\* write named by fault raises (fault = "none": no write raises).
SchedAccount(id, fault) ==
    LET q  == QuizById(quizzes, id)
        q2 == [q EXCEPT !.sent_count = @ + 1, !.last_sent = now]
        w  == IF Len(ActiveQuizzes(quizzes)) > FewQuizzes
              THEN Trim(recently_sent_quizzes, max_recent_track)
              ELSE recently_sent_quizzes
    IN  /\ quizzes' = PutObject(quizzes, q2)
        /\ now' = now + 1
        /\ dbQuizzes' = IF fault = "save_quiz" THEN dbQuizzes ELSE ReplaceOne(dbQuizzes, q2)
        /\ recently_sent_quizzes' =
              IF fault = "save_quiz" THEN w ELSE TrackRecentQuiz(w, id)
        /\ stats' = IF fault = "save_quiz" THEN stats
                    ELSE [stats EXCEPT !.total_quizzes_sent = @ + Len(groups)]

\* asyncio.sleep(self.quiz_interval) returns and send_random_quiz runs up to
\* its first await (lines 476-509).
SchedWake(fault) ==
    /\ sched.pc = "waiting"
    /\ hist.cycles < hist.limit
    /\ IF quizzes = <<>> \/ groups = <<>>
       THEN /\ fault = "none"
            /\ hist' = [hist EXCEPT !.cycles = @ + 1,
                                    !.sched = [batchNone EXCEPT !.state = "skipped"]]
            /\ sched' = Sleeping(quiz_interval)
            /\ UNCHANGED <<dbQuizzes, dbGroups, quizzes, groups,
                           recently_sent_quizzes, stats, handler, now>>
       ELSE \E id \in GetRandomQuiz(quizzes, recently_sent_quizzes) :
            IF id = None
            THEN /\ fault = "none"
                 /\ hist' = [hist EXCEPT !.cycles = @ + 1,
                                         !.sched = [batchNone EXCEPT !.state = "skipped"]]
                 /\ sched' = Sleeping(quiz_interval)
                 /\ UNCHANGED <<dbQuizzes, dbGroups, quizzes, groups,
                                recently_sent_quizzes, stats, handler, now>>
            ELSE /\ SchedAccount(id, fault)
                 /\ IF fault # "none"
                    THEN /\ sched' = [schedIdle EXCEPT !.pc = "dead", !.sleep = None]
                         /\ hist' = [hist EXCEPT !.cycles = @ + 1,
                                        !.picks = Append(@, id),
                                        !.tracked = IF fault = "save_quiz" THEN @ ELSE id,
                                        !.tracks = IF fault = "save_quiz" THEN @ ELSE @ + 1,
                                        !.sched = [batchNone EXCEPT !.state = "raised"]]
                         /\ UNCHANGED <<groups, handler>>
                    ELSE IF ActiveGroups(groups) = <<>>
                    THEN /\ groups' = dbGroups
                         /\ sched' = Sleeping(quiz_interval)
                         /\ handler' = [handler EXCEPT !.cur = FALSE, !.same = FALSE]
                         /\ hist' = [hist EXCEPT !.cycles = @ + 1,
                                        !.picks = Append(@, id),
                                        !.tracked = id, !.tracks = @ + 1,
                                        !.sched = [BatchStart(<<>>, dbGroups) EXCEPT
                                                     !.state = "done", !.post = dbGroups]]
                    ELSE /\ sched' = [pc |-> "sending", quiz |-> id,
                                      active |-> ActiveGroups(groups), i |-> 1,
                                      sent_to |-> 0, cur |-> TRUE,
                                      sleep |-> None]
                         /\ handler' = [handler EXCEPT !.same = handler.cur]
                         /\ hist' = [hist EXCEPT !.cycles = @ + 1,
                                        !.picks = Append(@, id),
                                        !.poll = SendPoll(QuizById(quizzes, id)),
                                        !.tracked = id, !.tracks = @ + 1,
                                        !.sched = BatchStart(ActiveGroups(groups), dbGroups)]
                         /\ UNCHANGED groups
                 /\ UNCHANGED dbGroups
    /\ UNCHANGED <<dbReports, broadcast_mode, nextId, ret>>
    /\ UNCHANGED intervalVars

\* Lines 519-521: the cache is reloaded; every list taken from the old
\* cache now holds objects the cache no longer has.
SchedReload(g2) ==
    /\ groups' = dbGroups'
    /\ handler' = [handler EXCEPT
                     !.active = IF handler.same THEN PutObject(@, g2) ELSE @,
                     !.cur = FALSE, !.same = FALSE]

\* The await of send_quiz_to_group for group i returns (out = "ok") or
\* raises (out = "fail"); out = "fail_store" is a raise followed by a raise
\* of save_group inside the except block (lines 507-517, 526-552).
SchedSend(out) ==
    /\ sched.pc = "sending"
    /\ LET g    == sched.active[sched.i]
           nxt  == IF out = "ok" THEN sched.i + 1
                   ELSE AfterFailure(sched.i, Len(sched.active))
           last == nxt > Len(sched.active)
           g2   == IF out = "ok" THEN [g EXCEPT !.quizzes_received = @ + 1]
                   ELSE MarkInactive(g)
           h    == [hist EXCEPT !.sched.tried = Append(@, g.chat_id),
                                !.sched.failed = IF out = "ok" THEN @ ELSE @ \cup {g.chat_id},
                                !.sched.sent_to = IF out = "ok" THEN @ + 1 ELSE @]
       IN  /\ dbGroups' = IF out = "fail_store" THEN dbGroups ELSE ReplaceOne(dbGroups, g2)
           /\ stats' = IF out = "ok"
                       THEN [stats EXCEPT !.group_engagement = Engage(@, g.chat_id)]
                       ELSE stats
           /\ IF out = "fail_store"
              THEN /\ sched' = [schedIdle EXCEPT !.pc = "dead", !.sleep = None]
                   /\ groups' = IF sched.cur THEN PutObject(groups, g2) ELSE groups
                   /\ handler' = [handler EXCEPT
                                    !.active = IF handler.same THEN PutObject(@, g2) ELSE @,
                                    !.same = FALSE]
                   /\ hist' = [h EXCEPT !.sched.state = "raised"]
              ELSE IF out = "fail" /\ last
              THEN /\ sched' = Sleeping(quiz_interval)
                   /\ SchedReload(g2)
                   /\ hist' = [h EXCEPT !.sched.state = "done", !.sched.post = dbGroups']
              ELSE /\ sched' = [sched EXCEPT
                                  !.active = PutObject(@, g2),
                                  !.i = nxt,
                                  !.sent_to = IF out = "ok" THEN @ + 1 ELSE @,
                                  !.pc = IF last THEN "finishing" ELSE "sending"]
                   /\ groups' = IF sched.cur THEN PutObject(groups, g2) ELSE groups
                   /\ handler' = [handler EXCEPT
                                    !.active = IF handler.same THEN PutObject(@, g2) ELSE @]
                   /\ hist' = h
    /\ UNCHANGED <<dbQuizzes, dbReports, quizzes, recently_sent_quizzes,
                   broadcast_mode, now, nextId, ret>>
    /\ UNCHANGED intervalVars

\* asyncio.sleep(0.5) after the last group returns; lines 519-524.
SchedFinish ==
    /\ sched.pc = "finishing"
    /\ sched' = Sleeping(quiz_interval)
    /\ UNCHANGED dbGroups
    /\ groups' = dbGroups
    /\ handler' = [handler EXCEPT !.cur = FALSE, !.same = FALSE]
    /\ hist' = [hist EXCEPT !.sched.state = "done", !.sched.post = dbGroups]
    /\ UNCHANGED <<dbQuizzes, dbReports, quizzes, recently_sent_quizzes, stats,
                   broadcast_mode, now, nextId, ret>>
    /\ UNCHANGED intervalVars

----------------------------------------------------------------------------
(* Broadcast: start_broadcast, handle_private_message, send_broadcast *)

MaxBatches == 1       \* broadcasts in a run

\* /broadcast from the administrator (lines 1503-1528).
StartBroadcast ==
    /\ handler.pc = "idle"
    /\ hist.batches < MaxBatches
    /\ broadcast_mode' = TRUE
    /\ hist' = hist
    /\ UNCHANGED <<dbQuizzes, dbGroups, dbReports, quizzes, groups,
                   recently_sent_quizzes, stats, sched, handler, now, nextId, ret>>
    /\ UNCHANGED intervalVars

\* Lines 1555-1560 of send_broadcast.
BroadcastTotals(sent, s) ==
    /\ stats' = [stats EXCEPT !.total_broadcasts_sent = @ + sent]
    /\ groups' = dbGroups'
    /\ sched' = [s EXCEPT !.cur = FALSE]

\* A private text message from the administrator while broadcast mode is
\* on: send_broadcast up to its first await (lines 388-391, 1530-1545).
BroadcastBegin ==
    /\ handler.pc = "idle"
    /\ broadcast_mode
    /\ broadcast_mode' = FALSE
    /\ IF ActiveGroups(groups) = <<>>
       THEN /\ UNCHANGED dbGroups
            /\ BroadcastTotals(0, sched)
            /\ handler' = handlerIdle
            /\ hist' = [hist EXCEPT !.batches = @ + 1,
                           !.bcast = [BatchStart(<<>>, dbGroups) EXCEPT
                                          !.state = "done", !.post = dbGroups]]
       ELSE /\ handler' = [handlerIdle EXCEPT
                             !.pc = "bcast_sending",
                             !.active = ActiveGroups(groups), !.i = 1,
                             !.cur = TRUE, !.same = sched.cur]
            /\ hist' = [hist EXCEPT !.batches = @ + 1,
                           !.bcast = BatchStart(ActiveGroups(groups), dbGroups)]
            /\ UNCHANGED <<dbGroups, groups, stats, sched>>
    /\ UNCHANGED <<dbQuizzes, dbReports, quizzes, recently_sent_quizzes,
                   now, nextId, ret>>
    /\ UNCHANGED intervalVars

\* The await of send_message for group i returns (ok) or raises
\* (lines 1540-1553).
BroadcastSend(ok) ==
    /\ handler.pc = "bcast_sending"
    /\ LET g    == handler.active[handler.i]
           nxt  == IF ok THEN handler.i + 1
                   ELSE AfterFailure(handler.i, Len(handler.active))
           last == nxt > Len(handler.active)
           g2   == MarkInactive(g)
           h    == [hist EXCEPT !.bcast.tried = Append(@, g.chat_id),
                                !.bcast.failed = IF ok THEN @ ELSE @ \cup {g.chat_id},
                                !.bcast.sent_to = IF ok THEN @ + 1 ELSE @]
       IN  IF ok
           THEN /\ handler' = [handler EXCEPT
                                 !.i = @ + 1, !.sent_to = @ + 1,
                                 !.pc = IF last THEN "bcast_finishing" ELSE "bcast_sending"]
                /\ hist' = h
                /\ UNCHANGED <<dbGroups, groups, stats, sched>>
           ELSE /\ dbGroups' = ReplaceOne(dbGroups, g2)
                /\ IF last
                   THEN /\ BroadcastTotals(handler.sent_to,
                               [sched EXCEPT !.active =
                                   IF handler.same THEN PutObject(@, g2) ELSE @])
                        /\ handler' = handlerIdle
                        /\ hist' = [h EXCEPT !.bcast.state = "done", !.bcast.post = dbGroups']
                   ELSE /\ handler' = [handler EXCEPT !.active = PutObject(@, g2), !.i = nxt]
                        /\ groups' = IF handler.cur THEN PutObject(groups, g2) ELSE groups
                        /\ sched' = [sched EXCEPT
                                       !.active = IF handler.same THEN PutObject(@, g2) ELSE @]
                        /\ hist' = h
                        /\ UNCHANGED stats
    /\ UNCHANGED <<dbQuizzes, dbReports, quizzes, recently_sent_quizzes,
                   broadcast_mode, now, nextId, ret>>
    /\ UNCHANGED intervalVars

\* asyncio.sleep(0.5) after the last group returns; lines 1555-1575.
BroadcastFinish ==
    /\ handler.pc = "bcast_finishing"
    /\ UNCHANGED dbGroups
    /\ BroadcastTotals(handler.sent_to, sched)
    /\ handler' = handlerIdle
    /\ hist' = [hist EXCEPT !.bcast.state = "done", !.bcast.post = dbGroups]
    /\ UNCHANGED <<dbQuizzes, dbReports, quizzes, recently_sent_quizzes,
                   broadcast_mode, now, nextId, ret>>
    /\ UNCHANGED intervalVars

----------------------------------------------------------------------------
(* Manual send: send_immediate_quiz and ensure_group_registered *)

MaxManuals == 1       \* /rquiz commands in a run

GroupsOfChat(coll, chat) == SelectSeq(coll, LAMBDA g : g.chat_id = chat)

\* /rquiz in group chat `chat` from a group administrator, up to the await
\* of send_chat_action (lines 554-602, 248-268).
ManualBegin(chat) ==
    /\ handler.pc = "idle"
    /\ hist.manuals < MaxManuals
    /\ IF ActiveQuizzes(quizzes) = <<>>
       THEN /\ handler' = handlerIdle
            /\ hist' = [hist EXCEPT !.manuals = @ + 1]
            /\ UNCHANGED <<dbGroups, groups, sched, nextId>>
       ELSE LET known == GroupsOfChat(dbGroups, chat) # <<>>
                db1   == IF known THEN dbGroups
                         ELSE Append(dbGroups, Group(nextId, chat, TRUE))
                g     == Head(GroupsOfChat(db1, chat))
                g2    == [g EXCEPT !.is_active = TRUE]
            IN  /\ dbGroups' = ReplaceOne(db1, g2)
                /\ nextId' = IF known THEN nextId ELSE nextId + 1
                /\ groups' = IF known THEN groups ELSE db1
                /\ sched' = IF known THEN sched ELSE [sched EXCEPT !.cur = FALSE]
                /\ handler' = [handlerIdle EXCEPT !.pc = "manual_typing",
                                                  !.chat = chat, !.group = g2]
                /\ hist' = [hist EXCEPT
                      !.manuals = @ + 1,
                      !.reactivated = IF g.is_active THEN @
                                      ELSE [chat |-> chat, cycle |-> hist.cycles],
                      !.manual = [@ EXCEPT
                                    !.state = "running", !.chat = chat,
                                    !.quizzes = dbQuizzes,
                                    !.received = g.manual_quizzes_received,
                                    !.total = stats.manual_quizzes_sent,
                                    !.window = recently_sent_quizzes,
                                    !.cycle = hist.cycles]]
    /\ UNCHANGED <<dbQuizzes, dbReports, quizzes, recently_sent_quizzes, stats,
                   broadcast_mode, now, ret>>
    /\ UNCHANGED intervalVars

\* send_chat_action returns; lines 604-626 up to the await of send_poll.
ManualSelect ==
    /\ handler.pc = "manual_typing"
    /\ \E id \in GetRandomQuiz(quizzes, recently_sent_quizzes) :
         IF id = None
         THEN /\ handler' = handlerIdle
              /\ UNCHANGED <<dbQuizzes, dbGroups, quizzes,
                             recently_sent_quizzes, stats, now, hist>>
         ELSE LET q  == QuizById(quizzes, id)
                  q2 == [q EXCEPT !.manual_sent_count = @ + 1, !.last_sent = now]
                  w  == IF Len(ActiveQuizzes(quizzes)) > FewQuizzes
                        THEN Trim(recently_sent_quizzes, max_recent_track)
                        ELSE recently_sent_quizzes
                  g2 == [handler.group EXCEPT !.manual_quizzes_received = @ + 1]
              IN  /\ quizzes' = PutObject(quizzes, q2)
                  /\ dbQuizzes' = ReplaceOne(dbQuizzes, q2)
                  /\ now' = now + 1
                  /\ recently_sent_quizzes' = TrackRecentQuiz(w, id)
                  /\ dbGroups' = ReplaceOne(dbGroups, g2)
                  /\ stats' = [stats EXCEPT !.manual_quizzes_sent = @ + 1]
                  /\ handler' = [handler EXCEPT !.pc = "manual_sending",
                                                !.quiz = id, !.group = g2]
                  /\ hist' = [hist EXCEPT !.tracked = id, !.tracks = @ + 1,
                                           !.poll = SendPoll(q)]
    /\ UNCHANGED <<dbReports, groups, sched, broadcast_mode, nextId, ret>>
    /\ UNCHANGED intervalVars

\* The await of send_poll returns (ok) or raises (lines 526-552, 626-633).
ManualSent(ok) ==
    /\ handler.pc = "manual_sending"
    /\ LET g2 == [handler.group EXCEPT !.quizzes_received = @ + 1]
       IN  IF ok
           THEN /\ dbGroups' = ReplaceOne(dbGroups, g2)
                /\ stats' = [stats EXCEPT
                               !.group_engagement = Engage(@, handler.group.chat_id)]
           ELSE UNCHANGED <<dbGroups, stats>>
    /\ handler' = handlerIdle
    /\ hist' = [hist EXCEPT
                  !.manual.state = IF ok THEN "sent" ELSE "failed",
                  !.manual.delivered = IF ok THEN Append(@, handler.group.chat_id)
                                       ELSE @]
    /\ UNCHANGED <<dbQuizzes, dbReports, quizzes, groups, recently_sent_quizzes,
                   sched, broadcast_mode, now, nextId, ret>>
    /\ UNCHANGED intervalVars

----------------------------------------------------------------------------
(* Reset: reset_quizzes_command and confirm_reset_quizzes *)

MaxResets == 1        \* reset requests in a run

\* Lines 1102-1112 and 1153-1163.
DeleteAllQuizzes ==
    /\ dbQuizzes' = <<>>
    /\ quizzes' = <<>>
    /\ recently_sent_quizzes' = <<>>
    /\ stats' = [stats EXCEPT !.quizzes_added = 0]
    /\ hist' = [hist EXCEPT !.resets = @ + 1, !.tracked = None]

ResetWithoutToken(admin, confirm) == admin

\* Lines 1088-1100: the administrator, and 'confirm' as the first argument.
ResetConfirmed(admin, confirm) == admin /\ confirm

\* /reset [confirm] from user `admin` (TRUE: the administrator).
ResetQuizzesCommand(admin, confirm) ==
    /\ handler.pc = "idle"
    /\ hist.resets < MaxResets
    /\ IF ResetConfirmed(admin, confirm)
       THEN DeleteAllQuizzes
       ELSE /\ hist' = [hist EXCEPT !.resets = @ + 1]
            /\ UNCHANGED <<dbQuizzes, quizzes, recently_sent_quizzes, stats>>
    /\ ret' = [op |-> "reset", val |-> None, admin |-> admin, confirm |-> confirm]
    /\ UNCHANGED <<dbGroups, dbReports, groups, sched, handler, broadcast_mode,
                   now, nextId>>
    /\ UNCHANGED intervalVars

\* The "Confirm Reset" button pressed by user `admin`.
ConfirmResetQuizzes(admin) ==
    /\ handler.pc = "idle"
    /\ hist.resets < MaxResets
    /\ IF admin
       THEN DeleteAllQuizzes
       ELSE /\ hist' = [hist EXCEPT !.resets = @ + 1]
            /\ UNCHANGED <<dbQuizzes, quizzes, recently_sent_quizzes, stats>>
    /\ ret' = [op |-> "confirm_reset", val |-> None, admin |-> admin, confirm |-> TRUE]
    /\ UNCHANGED <<dbGroups, dbReports, groups, sched, handler, broadcast_mode,
                   now, nextId>>
    /\ UNCHANGED intervalVars

ResetStep ==
    \/ \E admin \in BOOLEAN, confirm \in BOOLEAN : ResetQuizzesCommand(admin, confirm)
    \/ \E admin \in BOOLEAN : ConfirmResetQuizzes(admin)

----------------------------------------------------------------------------
(* SpecDispatch: the scheduler task and the handlers that send *)

PoolSize == 2         \* quizzes in the store in the dispatch runs

DispatchPool == [i \in 1..PoolSize |-> Quiz(i, Q0, TRUE, None)]

\* The store holds MaxGroups groups, each active or deactivated earlier.
InitDispatch ==
    \E f \in [1..MaxGroups -> BOOLEAN] :
        Constructed(DispatchPool, [i \in 1..MaxGroups |-> Group(i, i, f[i])], <<>>)

SchedulerStep ==
    \/ SchedWake("none")
    \/ \E out \in {"ok", "fail"} : SchedSend(out)
    \/ SchedFinish

BroadcastStep ==
    \/ StartBroadcast
    \/ BroadcastBegin
    \/ \E ok \in BOOLEAN : BroadcastSend(ok)
    \/ BroadcastFinish

ManualStep ==
    \/ \E chat \in 1..(MaxGroups + 1) : ManualBegin(chat)
    \/ ManualSelect
    \/ \E ok \in BOOLEAN : ManualSent(ok)

\* The scheduler task and a broadcast, interleaved at every suspension point.
NextDispatch == SchedulerStep \/ BroadcastStep

SpecDispatch == InitDispatch /\ [][NextDispatch]_vars

----------------------------------------------------------------------------
(* SpecBatch: dispatch batches one at a time *)

BatchGroups == 5      \* registered groups in the one-at-a-time runs

InitBatch ==
    \E f \in [1..BatchGroups -> BOOLEAN] :
        Constructed(DispatchPool, [i \in 1..BatchGroups |-> Group(i, i, f[i])], <<>>)

\* The timer fires only while no broadcast is in progress and the broadcast
\* text arrives only while the scheduler waits.
NextBatch ==
    \/ handler.pc = "idle" /\ SchedulerStep
    \/ sched.pc = "waiting" /\ BroadcastStep

SpecBatch == InitBatch /\ [][NextBatch]_vars

----------------------------------------------------------------------------
(* SpecFault: the scheduler task with store writes that may raise *)

FaultyStep ==
    \/ \E fault \in {"save_quiz", "save_stats"} : SchedWake(fault)
    \/ SchedSend("fail_store")

NextFault == SchedulerStep \/ FaultyStep

SpecFault == InitDispatch /\ [][NextFault]_vars

----------------------------------------------------------------------------
(* Claims about dispatch batches and the scheduler loop *)

IsPrefix(s, t) == Len(s) <= Len(t) /\ s = SubSeq(t, 1, Len(s))

BatchAttemptsAll(b) ==
    /\ b.state = "running" => IsPrefix(b.tried, b.n)
    /\ b.state = "done" => b.tried = b.n

\* C1: in a scheduled batch and in a broadcast batch, whatever sends fail,
\* the batch is not aborted and every group of the batch's active list gets
\* exactly one send attempt, in list order.
C1_FailureNeverAborts ==
    /\ sched.pc # "dead"
    /\ BatchAttemptsAll(hist.sched)
    /\ BatchAttemptsAll(hist.bcast)

C1_Witness ==
    /\ hist.sched.state = "done"
    /\ hist.bcast.state = "done"
    /\ Len(hist.sched.n) >= 3
    /\ hist.sched.n[1] \in hist.sched.failed
    /\ Len(hist.bcast.n) >= 2
    /\ hist.bcast.n[1] \in hist.bcast.failed

BatchOutcome(b) ==
    b.state = "done" =>
        /\ b.sent_to = Len(b.n) - Cardinality(b.failed)
        /\ Len(b.post) = Len(b.pre)
        /\ \A i \in 1..Len(b.pre) :
              /\ b.post[i].id = b.pre[i].id
              /\ b.post[i].chat_id = b.pre[i].chat_id
              /\ b.post[i].is_active =
                    (b.pre[i].is_active /\ b.pre[i].chat_id \notin b.failed)

C3_SchedulerSurvives == sched.pc \in {"waiting", "sending", "finishing"}

----------------------------------------------------------------------------
(* SpecWindow: scheduled sends, manual sends and resets *)

\* The state of a bot with p quizzes and one group after k scheduler cycles
\* that selected the quizzes 1..k in this order and delivered each of them.
AfterCycles(p, k) ==
    /\ dbQuizzes = [i \in 1..p |->
                      IF i <= k THEN [Quiz(i, Q0, TRUE, i) EXCEPT !.sent_count = 1]
                      ELSE Quiz(i, Q0, TRUE, None)]
    /\ dbGroups = <<[Group(p + 1, 1, TRUE) EXCEPT !.quizzes_received = k]>>
    /\ dbReports = <<>>
    /\ quizzes = dbQuizzes
    /\ groups = dbGroups
    /\ recently_sent_quizzes = [i \in 1..k |-> i]
    /\ stats = [load_stats EXCEPT !.total_quizzes_sent = k,
                                  !.group_engagement = IF k = 0 THEN EmptyTally ELSE [c \in {1} |-> k]]
    /\ sched = schedIdle
    /\ handler = handlerIdle
    /\ broadcast_mode = FALSE
    /\ now = k + 1
    /\ nextId = p + 2
    /\ hist = [histInit EXCEPT !.tracked = IF k = 0 THEN None ELSE k, !.tracks = k]
    /\ ret = noRet
    /\ SettingsLoaded(load_settings)

\* A fresh bot with a small pool, a pool of 4 whose window is about to cover
\* it, and a pool one larger than the window, whose window is about to fill.
InitWindow ==
    \/ AfterCycles(PoolSize, 0)
    \/ AfterCycles(FewQuizzes + 1, FewQuizzes)
    \/ AfterCycles(max_recent_track + 1, max_recent_track - 1)

NextWindow == SchedulerStep \/ ManualStep \/ ResetStep

SpecWindow == InitWindow /\ [][NextWindow]_vars

NoDuplicates(w) == \A i, j \in 1..Len(w) : w[i] = w[j] => i = j

\* C7: the recent-sent window never holds more than 10 ids.
C7_WindowBounded == Len(recently_sent_quizzes) <= max_recent_track

C7_Witness ==
    /\ Len(recently_sent_quizzes) = max_recent_track
    /\ recently_sent_quizzes[1] # 1
    /\ hist.tracked = 1

\* C8: the window holds no id twice; after track_recent_quiz(id) the id is
\* the last element; tracking an id already in the window moves it to the
\* end and leaves the others in their order.
C8_MoveToTail ==
    /\ [](NoDuplicates(recently_sent_quizzes))
    /\ [](hist.tracked # None =>
            /\ recently_sent_quizzes # <<>>
            /\ recently_sent_quizzes[Len(recently_sent_quizzes)] = hist.tracked)
    /\ [][(hist.tracks' # hist.tracks /\ InSeq(hist.tracked', recently_sent_quizzes))
            => recently_sent_quizzes' =
                  SelectSeq(recently_sent_quizzes, LAMBDA x : x # hist.tracked')
                     \o <<hist.tracked'>>]_vars

C8_Witness ==
    /\ hist.tracks = FewQuizzes + 2
    /\ recently_sent_quizzes = <<1, 3, 4, 2>>

----------------------------------------------------------------------------
(* Question texts: str.lower, ==, in *)

LowerChar(c) ==
    CASE c = "A" -> "a"
      [] c = "E" -> "e"
      [] c = "H" -> "h"
      [] c = "I" -> "i"
      [] c = "M" -> "m"
      [] c = "N" -> "n"
      [] c = "O" -> "o"
      [] c = "Q" -> "q"
      [] c = "R" -> "r"
      [] c = "T" -> "t"
      [] c = "U" -> "u"
      [] c = "W" -> "w"
      [] OTHER -> c

Lower(t) == [i \in 1..Len(t) |-> LowerChar(t[i])]

RECURSIVE Scattered(_, _)
Scattered(needle, hay) ==
    IF needle = <<>> THEN TRUE
    ELSE IF hay = <<>> THEN FALSE
    ELSE IF Head(needle) = Head(hay) THEN Scattered(Tail(needle), Tail(hay))
    ELSE Scattered(needle, Tail(hay))

ContainsScattered(hay, needle) == Scattered(needle, hay)

\* needle in hay
Contains(hay, needle) ==
    \E k \in 0..(Len(hay) - Len(needle)) : SubSeq(hay, k + 1, k + Len(needle)) = needle

ExactMatchCased(quizText, reportText) == quizText = reportText

ExactMatch(quizText, reportText) == Lower(quizText) = Lower(reportText)

SimilarOneWay(quizText, reportText) == Contains(Lower(quizText), Lower(reportText))

SimilarMatch(quizText, reportText) ==
    \/ Contains(Lower(quizText), Lower(reportText))
    \/ Contains(Lower(reportText), Lower(quizText))

\* send_quiz_to_group sends the poll with this text before the question
\* (line 534, without the emoji), so a report of a poll the bot sent carries it.
TAb == <<"A", "b">>
Tab == <<"a", "b">>
Tabc == <<"a", "b", "c">>
Tx == <<"x">>

----------------------------------------------------------------------------
(* parse_time_input: str.lower, str.strip, re.match, float, *, int *)

NoInterval == -1      \* parse_time_input returning None

Precision == 53       \* bits of the significand of a Python float

DigitChars == {"0", "1", "2", "3", "4", "5", "6", "7", "8", "9"}

DigitVal(c) ==
    CASE c = "0" -> 0 [] c = "1" -> 1 [] c = "2" -> 2 [] c = "3" -> 3
      [] c = "4" -> 4 [] c = "5" -> 5 [] c = "6" -> 6 [] c = "7" -> 7
      [] c = "8" -> 8 [] c = "9" -> 9

Front(s) == SubSeq(s, 1, Len(s) - 1)

RECURSIVE DigitsVal(_)
DigitsVal(s) ==
    IF s = <<>> THEN 0 ELSE 10 * DigitsVal(Front(s)) + DigitVal(s[Len(s)])

RECURSIVE Pow10(_)
Pow10(k) == IF k = 0 THEN 1 ELSE 10 * Pow10(k - 1)

RECURSIVE StripLeft(_)
StripLeft(s) == IF s # <<>> /\ Head(s) = " " THEN StripLeft(Tail(s)) ELSE s

RECURSIVE StripRight(_)
StripRight(s) == IF s # <<>> /\ s[Len(s)] = " " THEN StripRight(Front(s)) ELSE s

Strip(s) == StripRight(StripLeft(s))

\* Binary naturals, most significant bit first, no leading zero.
RECURSIVE NatBits(_)
NatBits(n) == IF n = 0 THEN <<>> ELSE Append(NatBits(n \div 2), n % 2)

RECURSIVE BitsNat(_)
BitsNat(b) == IF b = <<>> THEN 0 ELSE 2 * BitsNat(Front(b)) + b[Len(b)]

RECURSIVE Inc(_)
Inc(b) ==
    IF b = <<>> THEN <<1>>
    ELSE IF b[Len(b)] = 0 THEN Append(Front(b), 1)
    ELSE Append(Inc(Front(b)), 0)

\* A positive float is bits / 2^f with Precision bits; zero has no bits.
FloatZero == [bits |-> <<>>, f |-> 0]

\* Round-half-even to Precision bits: b are the kept bits, up says that
\* the dropped part rounds away from zero.
RoundTo(b, f, up) ==
    IF ~up THEN [bits |-> b, f |-> f]
    ELSE LET c == Inc(b)
         IN  IF Len(c) > Precision
             THEN [bits |-> SubSeq(c, 1, Precision), f |-> f - 1]
             ELSE [bits |-> c, f |-> f]

\* Long division r / d continued bit by bit until b has Precision bits.
RECURSIVE DivideBits(_, _, _, _)
DivideBits(b, r, f, d) ==
    IF Len(b) >= Precision THEN [bits |-> b, r |-> r, f |-> f]
    ELSE LET bit == IF 2 * r >= d THEN 1 ELSE 0
         IN  DivideBits(IF b = <<>> /\ bit = 0 THEN b ELSE Append(b, bit),
                        2 * r - d * bit, f + 1, d)

\* float() of the decimal n / d: the nearest float, ties to even.
FloatOf(n, d) ==
    IF n = 0 THEN FloatZero
    ELSE LET q == DivideBits(NatBits(n \div d), n % d, 0, d)
         IN  RoundTo(q.bits, q.f,
                     2 * q.r > d \/ (2 * q.r = d /\ q.bits[Precision] = 1))

LimbBits == 15        \* bits multiplied at a time

\* n as exactly w bits
FixedBits(n, w) == [i \in 1..w |-> (n \div 2^(w - i)) % 2]

\* The exact product of the bits b by the small natural m, plus carry,
\* LimbBits bits at a time from the least significant end.
RECURSIVE TimesCarry(_, _, _)
TimesCarry(b, m, carry) ==
    IF b = <<>> THEN NatBits(carry)
    ELSE LET w == IF Len(b) < LimbBits THEN Len(b) ELSE LimbBits
             t == BitsNat(SubSeq(b, Len(b) - w + 1, Len(b))) * m + carry
         IN  TimesCarry(SubSeq(b, 1, Len(b) - w), m, t \div 2^w) \o FixedBits(t % 2^w, w)

Times(b, m) == TimesCarry(b, m, 0)

\* x * m in float arithmetic, m a float that is a small whole number.
FloatTimes(x, m) ==
    IF x.bits = <<>> THEN FloatZero
    ELSE LET p     == Times(x.bits, m)
             extra == Len(p) - Precision
             rest  == SubSeq(p, Precision + 2, Len(p))
         IN  RoundTo(SubSeq(p, 1, Precision), x.f - extra,
                     /\ p[Precision + 1] = 1
                     /\ (p[Precision] = 1 \/ \E i \in 1..Len(rest) : rest[i] = 1))

\* int(x): truncation toward zero.
IntOf(x) ==
    IF x.f >= Len(x.bits) THEN 0
    ELSE BitsNat(SubSeq(x.bits, 1, Len(x.bits) - x.f))

NumberChars == DigitChars \cup {"."}

RECURSIVE NumberPrefix(_)
NumberPrefix(s) ==
    IF s # <<>> /\ Head(s) \in NumberChars THEN 1 + NumberPrefix(Tail(s)) ELSE 0

\* \d*\.?\d+
IsNumber(s) ==
    LET dots == {i \in 1..Len(s) : s[i] = "."}
    IN  /\ Len(s) >= 1
        /\ Cardinality(dots) <= 1
        /\ s[Len(s)] # "."

HourUnits == {<<"h">>, <<"h", "r">>, <<"h", "o", "u", "r">>}

MinuteUnits == {<<"m">>, <<"m", "i", "n">>, <<"m", "i", "n", "u", "t", "e">>}

Factor(unit) == IF unit \in MinuteUnits THEN 60 ELSE 3600

\* parse_time_input(time_str), lines 270-288.
ParseTimeInput(time_str) ==
    LET t      == Strip(Lower(time_str))
        k      == NumberPrefix(t)
        number == SubSeq(t, 1, k)
        unit   == StripLeft(SubSeq(t, k + 1, Len(t)))
        digits == SelectSeq(number, LAMBDA c : c # ".")
        places == IF \E i \in 1..k : number[i] = "."
                  THEN k - (CHOOSE i \in 1..k : number[i] = ".") ELSE 0
    IN  IF ~IsNumber(number) \/ unit \notin HourUnits \cup MinuteUnits \cup {<<>>}
        THEN NoInterval
        ELSE IntOf(FloatTimes(FloatOf(DigitsVal(digits), Pow10(places)), Factor(unit)))

----------------------------------------------------------------------------
(* Moderation: report_quiz_command and the report buttons *)

MaxReports == 2       \* message ids a /qreport command can carry
MaxReportCmds == 2    \* /qreport commands in a run

ReportIds == 1..MaxReports

Report(id, text) ==
    [id |-> id, status |-> "pending", question |-> text,
     deleted_quizzes |-> 0, total_deleted |-> 0]

HasId(coll, id) == \E d \in Range(coll) : d.id = id

\* find_one({'_id': id}), for an id that is stored
FindOne(coll, id) == CHOOSE d \in Range(coll) : d.id = id

InsertOrReplace(coll, doc) ==
    IF HasId(coll, doc.id) THEN ReplaceOne(coll, doc) ELSE Append(coll, doc)

\* insert_one: a document whose _id is already stored is rejected
\* (DuplicateKeyError) and the collection is left as it is.
InsertOne(coll, doc) ==
    IF HasId(coll, doc.id) THEN coll ELSE Append(coll, doc)

\* /qreport as a reply to a quiz poll with question `text`; the command
\* message has id `msg` (lines 635-705).
ReportQuizCommand(msg, text) ==
    /\ handler.pc = "idle"
    /\ hist.reports < MaxReportCmds
    /\ dbReports' = InsertOne(dbReports, Report(msg, text))
    /\ stats' = IF HasId(dbReports, msg) THEN stats
                ELSE [stats EXCEPT !.quiz_reports_received = @ + 1]
    /\ hist' = [hist EXCEPT !.reports = @ + 1,
                            !.dup = @ \/ (HasId(dbReports, msg)
                                          /\ FindOne(dbReports, msg).status # "pending")]
    /\ ret' = [op |-> "qreport", rid |-> msg, found |-> ~HasId(dbReports, msg),
               deleted |-> 0, list |-> <<>>]
    /\ UNCHANGED <<dbQuizzes, dbGroups, quizzes, groups, recently_sent_quizzes,
                   sched, handler, broadcast_mode, now, nextId>>
    /\ UNCHANGED intervalVars

Ids(coll) == [i \in 1..Len(coll) |-> coll[i].id]

KeepQuizzes(cache, stored) == cache

\* self.quizzes = self.load_quizzes(), lines 790 and 855.
ReloadQuizzes(cache, stored) == stored

CountDeletedLast(total, deleted_count) == deleted_count

\* Lines 786 and 851.
CountDeleted(total, deleted_count) == total + deleted_count

\* "Delete Quiz" button for report rid (lines 749-817).
HandleDeleteQuiz(rid) ==
    /\ handler.pc = "idle"
    /\ IF ~HasId(dbReports, rid)
       THEN /\ ret' = [op |-> "delete_quiz", rid |-> rid, found |-> FALSE, deleted |-> 0, list |-> <<>>]
            /\ UNCHANGED <<dbQuizzes, dbReports, quizzes, stats>>
       ELSE LET report  == FindOne(dbReports, rid)
                exact   == Ids(SelectSeq(dbQuizzes, LAMBDA q : ExactMatch(q.question, report.question)))
                similar == Ids(SelectSeq(dbQuizzes,
                              LAMBDA q : /\ ~ExactMatch(q.question, report.question)
                                         /\ SimilarMatch(q.question, report.question)))
            IN  /\ dbQuizzes' = DeleteIds(dbQuizzes, Range(exact))
                /\ dbReports' = ReplaceOne(dbReports,
                                  [report EXCEPT !.status = "deleted",
                                                 !.deleted_quizzes = Len(exact)])
                /\ stats' = [stats EXCEPT !.quizzes_deleted_by_reports = CountDeleted(@, Len(exact))]
                /\ quizzes' = ReloadQuizzes(quizzes, dbQuizzes')
                /\ ret' = [op |-> "delete_quiz", rid |-> rid, found |-> TRUE,
                           deleted |-> Len(exact), list |-> similar]
    /\ UNCHANGED <<dbGroups, groups, recently_sent_quizzes, sched, handler,
                   broadcast_mode, now, nextId, hist>>
    /\ UNCHANGED intervalVars

\* "Delete All Similar" button for report rid (lines 819-867).
HandleDeleteSimilarQuizzes(rid) ==
    /\ handler.pc = "idle"
    /\ IF ~HasId(dbReports, rid)
       THEN /\ ret' = [op |-> "delete_similar", rid |-> rid, found |-> FALSE, deleted |-> 0, list |-> <<>>]
            /\ UNCHANGED <<dbQuizzes, dbReports, quizzes, stats>>
       ELSE LET report == FindOne(dbReports, rid)
                hit    == Ids(SelectSeq(dbQuizzes, LAMBDA q : SimilarMatch(q.question, report.question)))
            IN  /\ dbQuizzes' = DeleteIds(dbQuizzes, Range(hit))
                /\ dbReports' = ReplaceOne(dbReports,
                                  [report EXCEPT !.total_deleted =
                                                    report.deleted_quizzes + Len(hit)])
                /\ stats' = [stats EXCEPT !.quizzes_deleted_by_reports = CountDeleted(@, Len(hit))]
                /\ quizzes' = ReloadQuizzes(quizzes, dbQuizzes')
                /\ ret' = [op |-> "delete_similar", rid |-> rid, found |-> TRUE,
                           deleted |-> Len(hit), list |-> <<>>]
    /\ UNCHANGED <<dbGroups, groups, recently_sent_quizzes, sched, handler,
                   broadcast_mode, now, nextId, hist>>
    /\ UNCHANGED intervalVars

SetStatusToggle(coll, id, status) ==
    [i \in 1..Len(coll) |->
        IF coll[i].id = id
        THEN [coll[i] EXCEPT !.status = IF @ = status THEN "pending" ELSE status]
        ELSE coll[i]]

\* update_one({'_id': id}, {'$set': {'status': status}}): whatever the
\* stored status is; a missing _id is a no-op.
SetStatus(coll, id, status) ==
    [i \in 1..Len(coll) |->
        IF coll[i].id = id THEN [coll[i] EXCEPT !.status = status] ELSE coll[i]]

\* "Ignore Report" button for report rid (lines 869-888).
HandleIgnoreReport(rid) ==
    /\ handler.pc = "idle"
    /\ dbReports' = SetStatus(dbReports, rid, "ignored")
    /\ ret' = [op |-> "ignore_report", rid |-> rid, found |-> TRUE, deleted |-> 0, list |-> <<>>]
    /\ UNCHANGED <<dbQuizzes, dbGroups, quizzes, groups, recently_sent_quizzes,
                   stats, sched, handler, broadcast_mode, now, nextId, hist>>
    /\ UNCHANGED intervalVars

\* "View Similar Quizzes" button for report rid (lines 890-952): reads the
\* cached quizzes.
HandleViewSimilar(rid) ==
    /\ handler.pc = "idle"
    /\ ret' = IF ~HasId(dbReports, rid)
              THEN [op |-> "view_similar", rid |-> rid, found |-> FALSE, deleted |-> 0, list |-> <<>>]
              ELSE [op |-> "view_similar", rid |-> rid, found |-> TRUE, deleted |-> 0,
                    list |-> Ids(SelectSeq(quizzes,
                               LAMBDA q : SimilarMatch(q.question,
                                             FindOne(dbReports, rid).question)))]
    /\ UNCHANGED <<dbQuizzes, dbGroups, dbReports, quizzes, groups,
                   recently_sent_quizzes, stats, sched, handler, broadcast_mode,
                   now, nextId, hist>>
    /\ UNCHANGED intervalVars

\* "View All Reports" button (lines 954-1007): the pending reports.
HandleViewReports ==
    /\ handler.pc = "idle"
    /\ ret' = [op |-> "view_reports", rid |-> None, found |-> TRUE, deleted |-> 0,
               list |-> Ids(SelectSeq(dbReports, LAMBDA r : r.status = "pending"))]
    /\ UNCHANGED <<dbQuizzes, dbGroups, dbReports, quizzes, groups,
                   recently_sent_quizzes, stats, sched, handler, broadcast_mode,
                   now, nextId, hist>>
    /\ UNCHANGED intervalVars

DeleteManyAll(coll) == <<>>

\* delete_many({'status': {'$ne': 'pending'}})
DeleteManyResolved(coll) == SelectSeq(coll, LAMBDA r : r.status = "pending")

\* "Clear All Resolved" button (lines 1009-1024).
HandleClearResolvedReports ==
    /\ handler.pc = "idle"
    /\ dbReports' = DeleteManyResolved(dbReports)
    /\ ret' = [op |-> "clear_resolved", rid |-> None, found |-> TRUE,
               deleted |-> Len(dbReports) - Len(dbReports'), list |-> <<>>]
    /\ UNCHANGED <<dbQuizzes, dbGroups, quizzes, groups, recently_sent_quizzes,
                   stats, sched, handler, broadcast_mode, now, nextId, hist>>
    /\ UNCHANGED intervalVars

\* "Back to Report" button for report rid (lines 1026-1067): shows the
\* Delete / Ignore / View Similar buttons of the report again.
HandleReportBack(rid) ==
    /\ handler.pc = "idle"
    /\ ret' = [op |-> "report_back", rid |-> rid, found |-> HasId(dbReports, rid),
               deleted |-> 0, list |-> <<>>]
    /\ UNCHANGED <<dbQuizzes, dbGroups, dbReports, quizzes, groups,
                   recently_sent_quizzes, stats, sched, handler, broadcast_mode,
                   now, nextId, hist>>
    /\ UNCHANGED intervalVars

----------------------------------------------------------------------------
(* SpecModeration: reports and their resolution *)

ModerationPool ==
    <<Quiz(1, TAb, TRUE, None), Quiz(2, Tab, TRUE, None),
      Quiz(3, Tabc, TRUE, None), Quiz(4, Tx, TRUE, None)>>

\* Questions a reported poll can carry: a stored question as typed (equal
\* to two stored questions ignoring case, contained in a third) and a poll
\* as the bot sends it (containing two stored questions).
ReportedTexts == {Tab, QuizTimePrefix \o TAb}

InitModeration == Constructed(ModerationPool, <<>>, <<>>)

\* The report buttons of button_handler (lines 2070-2151).
ResolutionStep ==
    \/ \E rid \in ReportIds :
          \/ HandleDeleteQuiz(rid)
          \/ HandleDeleteSimilarQuizzes(rid)
          \/ HandleIgnoreReport(rid)
          \/ HandleViewSimilar(rid)
          \/ HandleReportBack(rid)
    \/ HandleViewReports
    \/ HandleClearResolvedReports

ModerationStep ==
    \/ \E msg \in ReportIds, text \in ReportedTexts : ReportQuizCommand(msg, text)
    \/ ResolutionStep

NextModeration == ModerationStep

SpecModeration == InitModeration /\ [][NextModeration]_vars

StatusOf(coll, id) == IF HasId(coll, id) THEN FindOne(coll, id).status ELSE "absent"

Resolved == {"deleted", "ignored"}

\* C9: a report whose status is deleted or ignored keeps that status for as
\* long as it is stored, whatever button is pressed for it.
C9_ResolvedIsTerminal ==
    [][\A id \in ReportIds :
          (StatusOf(dbReports, id) \in Resolved /\ HasId(dbReports', id))
              => StatusOf(dbReports', id) = StatusOf(dbReports, id)]_vars

\* C10: no step takes a report from status deleted or ignored to pending.
C10_NeverBackToPending ==
    [][\A id \in ReportIds :
          StatusOf(dbReports, id) \in Resolved
              => StatusOf(dbReports', id) # "pending"]_vars

C10_Witness ==
    /\ hist.dup
    /\ ret.op = "qreport"
    /\ ~ret.found
    /\ \E id \in ReportIds : StatusOf(dbReports, id) \in Resolved

----------------------------------------------------------------------------
(* Resolution of a report: what each button does to quizzes and reports *)

\* The step is the handler `op` acting on a stored report; ret'.rid names it.
Resolves(op) == ret'.op = op /\ ret'.found /\ HasId(dbReports, ret'.rid)

Reported == FindOne(dbReports, ret'.rid).question

SameIgnoringCase(a, b) == Lower(a) = Lower(b)

\* C11: "Delete Quiz" on a stored report deletes exactly the quizzes whose
\* question equals the report's question ignoring case (a quiz that only
\* matches by containment stays), reports as deleted count the number of
\* quizzes removed, and sets the report's status to deleted.
C11_DeleteExact ==
    [][Resolves("delete_quiz") =>
          /\ dbQuizzes' = SelectSeq(dbQuizzes,
                              LAMBDA q : ~SameIgnoringCase(q.question, Reported))
          /\ quizzes' = dbQuizzes'
          /\ ret'.deleted = Len(dbQuizzes) - Len(dbQuizzes')
          /\ FindOne(dbReports', ret'.rid).deleted_quizzes = ret'.deleted
          /\ StatusOf(dbReports', ret'.rid) = "deleted"]_vars

\* Quizzes 1 (Ab) and 2 (ab) deleted for a report of "ab", quiz 3 (abc),
\* which contains the reported text, kept and listed as similar.
C11_Witness ==
    /\ ret.op = "delete_quiz"
    /\ ret.found
    /\ ret.deleted = 2
    /\ ret.list = <<3>>
    /\ Ids(dbQuizzes) = <<3, 4>>
    /\ StatusOf(dbReports, ret.rid) = "deleted"

InEitherDirection(a, b) == Contains(Lower(a), Lower(b)) \/ Contains(Lower(b), Lower(a))

\* C13: "Delete All Similar" on a stored report deletes every quiz whose
\* lower-cased question contains, or is contained in, the report's
\* lower-cased question and no other quiz, and records on the report
\* total_deleted = the report's earlier deleted_quizzes + the number deleted
\* by this call.
C13_DeleteSimilar ==
    [][Resolves("delete_similar") =>
          /\ dbQuizzes' = SelectSeq(dbQuizzes,
                              LAMBDA q : ~InEitherDirection(q.question, Reported))
          /\ quizzes' = dbQuizzes'
          /\ ret'.deleted = Len(dbQuizzes) - Len(dbQuizzes')
          /\ FindOne(dbReports', ret'.rid).total_deleted =
                 FindOne(dbReports, ret'.rid).deleted_quizzes + ret'.deleted
          /\ FindOne(dbReports', ret'.rid).deleted_quizzes =
                 FindOne(dbReports, ret'.rid).deleted_quizzes]_vars

\* After "Delete Quiz" removed quizzes 1 and 2 for a report of "ab",
\* "Delete All Similar" removes quiz 3 (abc): total_deleted = 2 + 1.
C13_Witness ==
    /\ ret.op = "delete_similar"
    /\ ret.found
    /\ ret.deleted = 1
    /\ HasId(dbReports, ret.rid)
    /\ FindOne(dbReports, ret.rid).deleted_quizzes = 2
    /\ FindOne(dbReports, ret.rid).total_deleted = 3
    /\ Ids(dbQuizzes) = <<4>>

\* C14: "Ignore Report" changes neither the stored quizzes nor the cached
\* quizzes nor any counter, on the first press and on every later one, and
\* after every press the report, if stored, has status ignored (so a second
\* press leaves the status of the first).
C14_IgnoreFrame ==
    /\ [](ret.op = "ignore_report" /\ HasId(dbReports, ret.rid)
              => StatusOf(dbReports, ret.rid) = "ignored")
    /\ [][ret'.op = "ignore_report" =>
              /\ dbQuizzes' = dbQuizzes
              /\ quizzes' = quizzes
              /\ stats' = stats
              /\ recently_sent_quizzes' = recently_sent_quizzes
              /\ Len(dbReports') = Len(dbReports)
              /\ \A id \in ReportIds \ {ret'.rid} :
                     StatusOf(dbReports', id) = StatusOf(dbReports, id)]_vars

\* A report ignored with all four quizzes still stored and cached.
C14_Witness ==
    /\ ret.op = "ignore_report"
    /\ StatusOf(dbReports, ret.rid) = "ignored"
    /\ Len(dbQuizzes) = 4
    /\ quizzes = dbQuizzes
    /\ stats.quizzes_deleted_by_reports = 0

\* C15: "Clear All Resolved" removes every report whose status is not
\* pending and leaves every pending report stored as it was.
C15_ClearResolved ==
    [][ret'.op = "clear_resolved" =>
          /\ \A id \in ReportIds :
                 IF StatusOf(dbReports, id) = "pending"
                 THEN HasId(dbReports', id)
                      /\ FindOne(dbReports', id) = FindOne(dbReports, id)
                 ELSE ~HasId(dbReports', id)
          /\ ret'.deleted = Len(dbReports) - Len(dbReports')
          /\ dbQuizzes' = dbQuizzes]_vars

\* One resolved report removed, one pending report left.
C15_Witness ==
    /\ ret.op = "clear_resolved"
    /\ ret.deleted = 1
    /\ Len(dbReports) = 1
    /\ dbReports[1].status = "pending"

----------------------------------------------------------------------------
(* SpecExample: the store holds "What is 2+2?" and "what is 2 + 2??" *)

WhatIs2Plus2 == <<"W", "h", "a", "t", " ", "i", "s", " ", "2", "+", "2", "?">>

WhatIs2Plus2Spaced ==
    <<"w", "h", "a", "t", " ", "i", "s", " ", "2", " ", "+", " ", "2", "?", "?">>

ExamplePool ==
    <<Quiz(1, WhatIs2Plus2, TRUE, None), Quiz(2, WhatIs2Plus2Spaced, TRUE, None)>>

ExampleTexts == {WhatIs2Plus2, WhatIs2Plus2Spaced}

InitExample == Constructed(ExamplePool, <<>>, <<>>)

NextExample ==
    \/ \E msg \in ReportIds, text \in ExampleTexts : ReportQuizCommand(msg, text)
    \/ ResolutionStep

SpecExample == InitExample /\ [][NextExample]_vars

\* "Delete Quiz" for a report of "What is 2+2?" while both quizzes are stored
DeletesWhatIs2Plus2 ==
    /\ Resolves("delete_quiz")
    /\ Reported = WhatIs2Plus2
    /\ Ids(dbQuizzes) = <<1, 2>>

\* C12 as stated: for a report of "What is 2+2?" and a store holding
\* "What is 2+2?" and "what is 2 + 2??", "Delete Quiz" deletes the first
\* quiz, keeps the second and lists the second as similar.
C12_ListsSpacedAsSimilar ==
    [][DeletesWhatIs2Plus2 =>
          /\ Ids(dbQuizzes') = <<2>>
          /\ ret'.list = <<2>>]_vars

\* C12 amended: "Delete Quiz" deletes the first quiz and keeps the second,
\* and its similar list is empty: neither of "what is 2+2?" and
\* "what is 2 + 2??" contains the other, so the second quiz is not similar.
C12_SpacedIsNotSimilar ==
    [][DeletesWhatIs2Plus2 =>
          /\ Ids(dbQuizzes') = <<2>>
          /\ ret'.deleted = 1
          /\ ret'.list = <<>>]_vars

C12_Witness ==
    /\ ret.op = "delete_quiz"
    /\ ret.found
    /\ HasId(dbReports, ret.rid)
    /\ FindOne(dbReports, ret.rid).question = WhatIs2Plus2
    /\ ret.deleted = 1
    /\ ret.list = <<>>
    /\ Ids(dbQuizzes) = <<2>>

----------------------------------------------------------------------------
(* Counters of scheduled and manual sends *)

\* C16: when the first scheduled batch of a run is complete, the global
\* total of automatically sent quizzes (0 at construction) equals the number
\* of groups the batch delivered the quiz to.
C16_TotalCountsDeliveries ==
    (hist.cycles = 1 /\ hist.sched.state = "done")
        => stats.total_quizzes_sent = hist.sched.sent_to

AutoCountersKept ==
    /\ stats'.total_quizzes_sent = stats.total_quizzes_sent
    /\ Len(dbGroups') = Len(dbGroups)
    /\ \A i \in 1..Len(dbGroups) :
          dbGroups'[i].quizzes_received = dbGroups[i].quizzes_received
    /\ Len(dbQuizzes') = Len(dbQuizzes)
    /\ \A i \in 1..Len(dbQuizzes) :
          dbQuizzes'[i].sent_count = dbQuizzes[i].sent_count

\* C17: a successful /rquiz send raises the quiz's manual_sent_count, the
\* group's manual_quizzes_received and the global manual_quizzes_sent by one
\* each (at selection) and leaves the quizzes' sent_count, the groups'
\* quizzes_received and the global total_quizzes_sent as they were, both at
\* selection and when the send returns.
C17_ManualCountersOnly ==
    [][/\ (handler.pc = "manual_typing" /\ handler'.pc = "manual_sending") =>
            /\ AutoCountersKept
            /\ stats'.manual_quizzes_sent = stats.manual_quizzes_sent + 1
            /\ QuizById(dbQuizzes', handler'.quiz).manual_sent_count =
                   QuizById(dbQuizzes, handler'.quiz).manual_sent_count + 1
            /\ handler'.group.manual_quizzes_received =
                   handler.group.manual_quizzes_received + 1
       /\ (handler.pc = "manual_sending" /\ handler'.pc = "idle") =>
            AutoCountersKept]_vars

----------------------------------------------------------------------------
(* SpecParse: parse_time_input applied to drawn inputs *)

MaxWhole == 2         \* digits before the decimal point of a drawn input
MaxFrac == 1          \* digits after the decimal point of a drawn input

InputDigits == {"0", "1", "2", "4", "5", "9"}

DigitStrings(n) == UNION {[1..k -> InputDigits] : k \in 0..n}

\* Inputs are a number part (digits, optionally a point, digits; any of the
\* three may be missing), optional blanks and a unit part.
DrawnNumbers ==
    {w \o p \o f : w \in DigitStrings(MaxWhole), p \in {<<>>, <<".">>},
                   f \in DigitStrings(MaxFrac)}

DrawnGaps == {<<>>, <<" ">>}

DrawnUnits ==
    HourUnits \cup MinuteUnits
        \cup {<<>>, <<"H">>, <<"M", "i", "n">>, <<"h", "o", "u", "r", "s">>,
              <<"s">>, <<"a", "b", "c">>}

InitParse ==
    /\ dbQuizzes = <<>>
    /\ dbGroups = <<>>
    /\ dbReports = <<>>
    /\ quizzes = <<>>
    /\ groups = <<>>
    /\ recently_sent_quizzes = <<>>
    /\ stats = load_stats
    /\ sched = schedIdle
    /\ handler = handlerIdle
    /\ broadcast_mode = FALSE
    /\ now = 1
    /\ nextId = 1
    /\ hist = histInit
    /\ SettingsLoaded(load_settings)
    /\ \E n \in DrawnNumbers, g \in DrawnGaps, u \in DrawnUnits :
          ret = [op |-> "input", number |-> n, gap |-> g, unit |-> u, val |-> None]

CallParseTimeInput ==
    /\ ret.op = "input"
    /\ ret' = [ret EXCEPT !.op = "parse_time_input",
                          !.val = ParseTimeInput(ret.number \o ret.gap \o ret.unit)]
    /\ UNCHANGED <<dbQuizzes, dbGroups, dbReports, quizzes, groups,
                   recently_sent_quizzes, stats, sched, handler, broadcast_mode,
                   now, nextId, hist, intervalVars>>

NextParse == CallParseTimeInput

SpecParse == InitParse /\ [][NextParse]_vars

\* The whole seconds of the decimal `number` in the unit `unit`, in exact
\* arithmetic, truncated; NoInterval for what is not a number with a known
\* unit.
WholeSeconds(number, unit) ==
    LET digits == SelectSeq(number, LAMBDA c : c # ".")
        places == IF \E i \in 1..Len(number) : number[i] = "."
                  THEN Len(number) - (CHOOSE i \in 1..Len(number) : number[i] = ".")
                  ELSE 0
        u      == Lower(unit)
    IN  IF ~IsNumber(number) THEN NoInterval
        ELSE IF u \in HourUnits \cup {<<>>}
             THEN (DigitsVal(digits) * 3600) \div Pow10(places)
        ELSE IF u \in MinuteUnits
             THEN (DigitsVal(digits) * 60) \div Pow10(places)
        ELSE NoInterval

\* C20: parse_time_input returns the number converted to whole seconds,
\* truncated: times 3600 with unit h, hr, hour or no unit, times 60 with
\* unit m, min or minute ("2h" 7200, "90m" 5400, "1.5h" 5400, "2" 7200), and
\* invalid for non-numeric input or an unknown unit.
C20_ParseWholeSeconds ==
    ret.op = "parse_time_input" => ret.val = WholeSeconds(ret.number, ret.unit)

----------------------------------------------------------------------------
(* Interval reconfiguration: /setdelay and the settings menu *)

RejectedOnlyInvalid(new_interval) == new_interval = NoInterval

\* "if new_interval is None" and "if new_interval <= 0", lines 1387-1405
\* and 1459-1477.
Rejected(new_interval) == new_interval = NoInterval \/ new_interval <= 0

\* Lines 1407-1410 and 1479-1482: the live interval, the cached settings
\* and, by save_settings, the stored settings.
SetInterval(new_interval) ==
    /\ quiz_interval' = new_interval
    /\ settings' = [settings EXCEPT !.quiz_interval = new_interval]
    /\ dbSettings' = settings'

\* /setdelay from user `admin` (TRUE: the administrator) with the words
\* args after the command (lines 1365-1427).
SetQuizIntervalCommand(admin, args) ==
    /\ handler.pc = "idle"
    /\ IF ~admin \/ args = <<>>
       THEN /\ ret' = [op |-> "setdelay", arg |-> args, val |-> NoInterval, ok |-> FALSE]
            /\ UNCHANGED <<quiz_interval, settings, dbSettings>>
       ELSE \E new_interval \in {ParseTimeInput(args[1])} :
                /\ ret' = [op |-> "setdelay", arg |-> args, val |-> new_interval,
                           ok |-> ~Rejected(new_interval)]
                /\ IF Rejected(new_interval)
                   THEN UNCHANGED <<quiz_interval, settings, dbSettings>>
                   ELSE SetInterval(new_interval)
    /\ UNCHANGED <<dbQuizzes, dbGroups, dbReports, quizzes, groups,
                   recently_sent_quizzes, stats, sched, handler, broadcast_mode,
                   now, nextId, hist, waiting_for_interval>>

\* The "Set Interval" button of the settings menu pressed by user `admin`
\* (lines 1429-1450).
SetQuizIntervalCallback(admin) ==
    /\ handler.pc = "idle"
    /\ waiting_for_interval' = (admin \/ waiting_for_interval)
    /\ ret' = [op |-> "set_interval", arg |-> <<>>, val |-> NoInterval, ok |-> admin]
    /\ UNCHANGED <<dbQuizzes, dbGroups, dbReports, quizzes, groups,
                   recently_sent_quizzes, stats, sched, handler, broadcast_mode,
                   now, nextId, hist, quiz_interval, settings, dbSettings>>

\* A private text message from the administrator while no broadcast is
\* armed (handle_private_message 380-401, handle_interval_input 1452-1501);
\* without the waiting flag the message is not an interval.
HandleIntervalInput(text) ==
    /\ handler.pc = "idle"
    /\ ~broadcast_mode
    /\ IF ~waiting_for_interval
       THEN /\ ret' = [op |-> "interval_input", arg |-> <<text>>, val |-> NoInterval,
                       ok |-> FALSE]
            /\ UNCHANGED <<quiz_interval, settings, dbSettings, waiting_for_interval>>
       ELSE \E new_interval \in {ParseTimeInput(text)} :
                /\ ret' = [op |-> "interval_input", arg |-> <<text>>,
                           val |-> new_interval, ok |-> ~Rejected(new_interval)]
                /\ IF Rejected(new_interval)
                   THEN UNCHANGED <<quiz_interval, settings, dbSettings,
                                    waiting_for_interval>>
                   ELSE /\ SetInterval(new_interval)
                        /\ waiting_for_interval' = FALSE
    /\ UNCHANGED <<dbQuizzes, dbGroups, dbReports, quizzes, groups,
                   recently_sent_quizzes, stats, sched, handler, broadcast_mode,
                   now, nextId, hist>>

----------------------------------------------------------------------------
(* SpecInterval: the scheduler task and interval reconfigurations *)

TwoHours == <<"2", "h">>
NinetyMinutes == <<"9", "0", "m">>
HalfMinute == <<"0", ".", "5", " ", "M", "i", "n">>
TinyHours == <<"0", ".", "0", "0", "0", "1", "h">>
ZeroHours == <<"0">>
NotATime == <<"a", "b", "c">>
MinusOne == <<"-", "1", "h">>

\* Words a /setdelay command can carry (no blanks inside a word).
IntervalWords == {TwoHours, NinetyMinutes, TinyHours, ZeroHours, NotATime, MinusOne}

\* Texts of a private message.
IntervalTexts == {TwoHours, HalfMinute, ZeroHours, NotATime}

InitInterval == Constructed(DispatchPool, <<Group(PoolSize + 1, 1, TRUE)>>, <<>>)

IntervalStep ==
    \/ \E admin \in BOOLEAN, args \in {<<>>} \cup {<<w>> : w \in IntervalWords} :
          SetQuizIntervalCommand(admin, args)
    \/ \E admin \in BOOLEAN : SetQuizIntervalCallback(admin)
    \/ \E text \in IntervalTexts : HandleIntervalInput(text)

NextInterval == SchedulerStep \/ IntervalStep

SpecInterval == InitInterval /\ [][NextInterval]_vars

IntervalIs(n) ==
    /\ quiz_interval = n
    /\ settings.quiz_interval = n
    /\ dbSettings.quiz_interval = n

\* C18: an interval reconfiguration whose word does not parse or parses to
\* 0 seconds or less is answered with an error and leaves the live
\* interval, the cached settings and the stored settings as they were; the
\* interval is greater than 0 in every reachable state.
C18_RejectsNonPositive ==
    /\ [](quiz_interval > 0 /\ IntervalIs(quiz_interval))
    /\ [][(ret'.op \in {"setdelay", "interval_input"} /\ ret'.val <= 0) =>
              /\ ~ret'.ok
              /\ quiz_interval' = quiz_interval
              /\ settings' = settings
              /\ dbSettings' = dbSettings]_vars

\* "0" rejected after the interval had been set to two hours.
C18_Witness ==
    /\ ret.op = "setdelay"
    /\ ret.arg = <<ZeroHours>>
    /\ ret.val = 0
    /\ ~ret.ok
    /\ IntervalIs(7200)

\* C19: the argument of the sleep in progress is the interval read when the
\* wait started: no step other than the scheduler's own wake-up changes it
\* (an interval change made while the scheduler waits does not touch the
\* wait in progress), and every wait that starts sleeps for the interval
\* current at that moment.
C19_IntervalReadAtWaitStart ==
    /\ [][(sched.pc = "waiting" /\ hist'.cycles = hist.cycles) =>
              (sched'.pc = "waiting" /\ sched'.sleep = sched.sleep)]_vars
    /\ [][(sched'.pc = "waiting" /\ (sched.pc # "waiting" \/ hist'.cycles # hist.cycles)) =>
              sched'.sleep = quiz_interval']_vars

\* The wait that started after a change to two hours sleeps 7200 seconds,
\* and a later change to ninety minutes made during that wait has not
\* touched it.
C19_Witness ==
    /\ sched.pc = "waiting"
    /\ hist.cycles >= 1
    /\ sched.sleep = 7200
    /\ quiz_interval = 5400
    /\ ret.op = "setdelay"
    /\ ret.ok

----------------------------------------------------------------------------
(* Overlap of dispatch batches *)

\* The scheduler task is inside the for loop of send_random_quiz
\* (lines 507-517): suspended in the send to one of its groups.
SchedBatchOpen == sched.pc = "sending"

\* The handler is inside the for loop of send_broadcast (lines 1540-1553).
BroadcastBatchOpen == handler.pc = "bcast_sending"

\* C21: dispatch batches never overlap: in no state are a scheduled quiz
\* batch and a broadcast batch both between their first and their last
\* group send.
C21_BatchesNeverOverlap == ~(SchedBatchOpen /\ BroadcastBatchOpen)

----------------------------------------------------------------------------
(* The manual path and the scheduled path on the same quiz *)

Occurrences(w, id) == Cardinality({i \in 1..Len(w) : w[i] = id})

\* A step that selected a quiz: both paths call track_recent_quiz right
\* after save_quiz (lines 491-495 and 608-614).
SelectsQuiz == hist'.tracks # hist.tracks

\* The step is the scheduled path's (send_random_quiz) and not the manual
\* path's (send_immediate_quiz).
Scheduled == hist'.cycles # hist.cycles

\* C22: under every interleaving of the scheduled path and the manual path
\* at their suspension points no update of a quiz is lost: a selection
\* raises the selected quiz's stored sent_count (scheduled) or
\* manual_sent_count (manual) by one and leaves its other count and every
\* other stored quiz as they were, the cached quizzes are the stored ones,
\* and the window then holds the selected id exactly once; no step other
\* than a selection or a reset writes a stored quiz.
C22_NoLostUpdate ==
    /\ [](quizzes = dbQuizzes)
    /\ [][SelectsQuiz =>
            /\ Occurrences(recently_sent_quizzes', hist'.tracked) = 1
            /\ Ids(dbQuizzes') = Ids(dbQuizzes)
            /\ \A i \in 1..Len(dbQuizzes) :
                 LET q    == dbQuizzes[i]
                     hit  == q.id = hist'.tracked
                 IN  /\ dbQuizzes'[i].sent_count =
                           q.sent_count + (IF hit /\ Scheduled THEN 1 ELSE 0)
                     /\ dbQuizzes'[i].manual_sent_count =
                           q.manual_sent_count + (IF hit /\ ~Scheduled THEN 1 ELSE 0)]_vars
    /\ [][(~SelectsQuiz /\ hist'.resets = hist.resets) => dbQuizzes' = dbQuizzes]_vars

\* Both paths selected quiz 1 of a fresh bot and both sends are in flight.
C22_Witness ==
    /\ sched.pc = "sending"
    /\ handler.pc = "manual_sending"
    /\ sched.quiz = handler.quiz
    /\ hist.tracks = 2
    /\ HasId(dbQuizzes, sched.quiz)
    /\ FindOne(dbQuizzes, sched.quiz).sent_count = 1
    /\ FindOne(dbQuizzes, sched.quiz).manual_sent_count = 1
    /\ Occurrences(recently_sent_quizzes, sched.quiz) = 1

----------------------------------------------------------------------------
(* Reset of the quiz collection *)

\* A step of reset_quizzes_command or confirm_reset_quizzes.
ResetIssued == hist'.resets # hist.resets

QuizDataKept ==
    /\ dbQuizzes' = dbQuizzes
    /\ quizzes' = quizzes
    /\ recently_sent_quizzes' = recently_sent_quizzes

QuizDataEmpty ==
    /\ dbQuizzes' = <<>>
    /\ quizzes' = <<>>
    /\ recently_sent_quizzes' = <<>>

\* C23: /reset without the word confirm leaves the stored quizzes, the
\* cached quizzes and the recent-sent window as they were; /reset confirm
\* and the Confirm Reset button, from the administrator, leave all three
\* empty; from anyone else they change nothing.
C23_ResetNeedsConfirmation ==
    [][ResetIssued =>
          IF ret'.admin /\ ret'.confirm THEN QuizDataEmpty ELSE QuizDataKept]_vars

\* /reset confirm after a quiz was sent: the window held its id.
C23_Witness ==
    /\ ret.op = "reset"
    /\ ret.admin /\ ret.confirm
    /\ hist.tracks >= 1
    /\ hist.cycles >= 1
    /\ dbQuizzes = <<>> /\ quizzes = <<>> /\ recently_sent_quizzes = <<>>

----------------------------------------------------------------------------
(* Ingestion: a poll sent to the bot in private (save_poll_quiz) *)

\* Polls the administrator can send: quiz_mode says that the poll has a
\* correct_option_id.
DrawnPolls == [question : {Tab}, is_anonymous : BOOLEAN, quiz_mode : BOOLEAN]

\* A private message carrying `poll` from user `admin` while neither a
\* broadcast nor an interval is awaited (handle_private_message 380-405,
\* save_poll_quiz 420-455): the quiz is inserted with the poll's own
\* anonymity and the cache is reloaded from the store.
SavePollQuiz(admin, poll) ==
    /\ handler.pc = "idle"
    /\ ~broadcast_mode
    /\ ~waiting_for_interval
    /\ hist.ingests < MaxIngests
    /\ hist' = [hist EXCEPT !.ingests = @ + 1]
    /\ IF admin /\ poll.quiz_mode
       THEN /\ dbQuizzes' = Append(dbQuizzes,
                               [Quiz(nextId, poll.question, TRUE, None) EXCEPT
                                   !.is_anonymous = poll.is_anonymous])
            /\ nextId' = nextId + 1
            /\ stats' = [stats EXCEPT !.quizzes_added = @ + 1]
            /\ quizzes' = dbQuizzes'
       ELSE UNCHANGED <<dbQuizzes, nextId, stats, quizzes>>
    /\ ret' = [op |-> "save_poll_quiz", val |-> None, saved |-> admin /\ poll.quiz_mode]
    /\ UNCHANGED <<dbGroups, dbReports, groups, recently_sent_quizzes, sched,
                   handler, broadcast_mode, now>>
    /\ UNCHANGED intervalVars

----------------------------------------------------------------------------
(* SpecService: the scheduler task and the handlers that write *)

ServicePool == <<Quiz(1, TAb, TRUE, None), Quiz(2, Tx, TRUE, None)>>

InitService == Constructed(ServicePool, <<Group(3, 1, TRUE)>>, <<>>)

MaxCommands == 2      \* commands and polls the bot receives in a run

Received ==
    hist.batches + hist.manuals + hist.resets + hist.ingests + hist.reports

\* An update that starts a handler: /rquiz in the group, the broadcast
\* text, /reset, a poll, /qreport on the poll with message id 1.
ServiceCommand ==
    \/ ManualBegin(1)
    \/ BroadcastBegin
    \/ \E confirm \in BOOLEAN : ResetQuizzesCommand(TRUE, confirm)
    \/ \E poll \in DrawnPolls : SavePollQuiz(TRUE, poll)
    \/ ReportQuizCommand(1, Tab)

\* A suspended handler going on, /broadcast, and the buttons of report 1
\* that write.
ServiceStep ==
    \/ ManualSelect
    \/ \E ok \in BOOLEAN : ManualSent(ok)
    \/ StartBroadcast
    \/ \E ok \in BOOLEAN : BroadcastSend(ok)
    \/ BroadcastFinish
    \/ HandleDeleteQuiz(1)
    \/ HandleDeleteSimilarQuizzes(1)
    \/ HandleIgnoreReport(1)
    \/ HandleClearResolvedReports

NextService ==
    \/ SchedulerStep
    \/ Received < MaxCommands /\ ServiceCommand
    \/ ServiceStep

SpecService == InitService /\ [][NextService]_vars

\* C24: every quiz poll sent to a group, by the scheduler and by /rquiz, is
\* sent with is_anonymous = False, allows_multiple_answers = False and
\* open_period = 0 (no time limit), whatever is_anonymous the stored quiz
\* has.
C24_AlwaysNonAnonymous ==
    hist.poll.sent =>
        /\ ~hist.poll.is_anonymous
        /\ ~hist.poll.allows_multiple_answers
        /\ hist.poll.open_period = 0

\* The scheduler sends a quiz that was saved from an anonymous poll.
C24_Witness ==
    /\ sched.pc = "sending"
    /\ hist.poll.sent
    /\ HasId(dbQuizzes, sched.quiz)
    /\ FindOne(dbQuizzes, sched.quiz).is_anonymous
    /\ hist.poll.question = QuizTimePrefix \o FindOne(dbQuizzes, sched.quiz).question

----------------------------------------------------------------------------
(* Counters of self.stats *)

Counters ==
    {"total_quizzes_sent", "manual_quizzes_sent", "total_broadcasts_sent",
     "quiz_reports_received", "quizzes_deleted_by_reports"}

\* The step is a reset that deletes: lines 1102-1112 and 1153-1163.
ResetDone == ResetIssued /\ ret'.admin /\ ret'.confirm

\* C25: no step of the scheduler or of a handler lowers total_quizzes_sent,
\* manual_quizzes_sent, total_broadcasts_sent, quiz_reports_received,
\* quizzes_deleted_by_reports or the engagement tally of a group, and no
\* tally is dropped; quizzes_added is lowered by a confirmed reset only.
C25_CountersNeverDecrease ==
    [][/\ \A c \in Counters : stats'[c] >= stats[c]
       /\ \A g \in DOMAIN stats.group_engagement :
             /\ g \in DOMAIN stats'.group_engagement
             /\ stats'.group_engagement[g] >= stats.group_engagement[g]
       /\ stats'.quizzes_added < stats.quizzes_added => ResetDone]_vars

\* A poll was saved and a quiz delivered; /reset confirm then set
\* quizzes_added back to 0 and kept the other counters.
C25_Witness ==
    /\ ret.op = "reset"
    /\ ret.admin /\ ret.confirm
    /\ nextId = Len(ServicePool) + 3
    /\ stats.quizzes_added = 0
    /\ stats.total_quizzes_sent > 0
    /\ 1 \in DOMAIN stats.group_engagement

----------------------------------------------------------------------------
(* Resolution of a report that is not in the store *)

ResolutionOps == {"delete_quiz", "delete_similar", "ignore_report"}

\* C26: Delete, Delete All Similar and Ignore pressed for a report id that
\* is not stored answer that the report was not found and change neither
\* the stored reports, nor the stored quizzes, nor the counters.
C26_NotFoundChangesNothing ==
    [][(ret'.op \in ResolutionOps /\ ~HasId(dbReports, ret'.rid)) =>
          /\ ~ret'.found
          /\ dbReports' = dbReports
          /\ dbQuizzes' = dbQuizzes
          /\ stats' = stats]_vars

----------------------------------------------------------------------------
(* Selection after quizzes were removed *)

\* C27: the cached quizzes are exactly the stored ones, so that after
\* Delete, Delete All Similar or a confirmed reset every selection, by the
\* scheduler or by /rquiz, returns a quiz that is in the store: a removed
\* quiz is never selected again.
C27_RemovedNeverSelected ==
    /\ [](Ids(quizzes) = Ids(dbQuizzes))
    /\ [][SelectsQuiz =>
             /\ HasId(dbQuizzes, hist'.tracked)
             /\ HasId(dbQuizzes', hist'.tracked)]_vars

\* Quiz 1 was sent by the scheduler and then deleted for a report; the
\* /rquiz that came after the deletion selected quiz 2.
C27_Witness ==
    /\ ret.op = "delete_quiz"
    /\ ret.deleted = 1
    /\ ~HasId(dbQuizzes, 1)
    /\ InSeq(1, recently_sent_quizzes)
    /\ handler.pc = "manual_sending"
    /\ handler.quiz = 2

----------------------------------------------------------------------------
(* View Similar after Delete *)

\* C28: View Similar Quizzes on a report lists exactly the stored quizzes
\* whose question contains the report's question or is contained in it,
\* ignoring case; on a report that Delete has resolved it lists no quiz
\* that Delete removed (none whose question equals the report's
\* ignoring case); and it changes no report, no quiz and no counter.
C28_ViewSimilarAfterDelete ==
    [][Resolves("view_similar") =>
          /\ Range(ret'.list) =
                {q.id : q \in {x \in Range(dbQuizzes) :
                                  InEitherDirection(x.question, Reported)}}
          /\ StatusOf(dbReports, ret'.rid) = "deleted" =>
                \A q \in Range(dbQuizzes) :
                    SameIgnoringCase(q.question, Reported) => ~InSeq(q.id, ret'.list)
          /\ UNCHANGED <<dbReports, dbQuizzes, quizzes, stats>>]_vars

\* Delete on the report of "ab" removed the quizzes "Ab" and "ab"; View
\* Similar on the same report then lists the surviving quiz "abc".
C28_Witness ==
    /\ ret.op = "view_similar"
    /\ ret.found
    /\ StatusOf(dbReports, ret.rid) = "deleted"
    /\ FindOne(dbReports, ret.rid).question = Tab
    /\ FindOne(dbReports, ret.rid).deleted_quizzes = 2
    /\ ret.list = <<3>>
    /\ Ids(dbQuizzes) = <<3, 4>>

----------------------------------------------------------------------------
(* SpecCoverage: six scheduler cycles over a pool of four quizzes *)

CoveragePool == FewQuizzes + 1        \* 4 active quizzes

CoverageCycles == CoveragePool + 2    \* 6 cycles

\* A bot constructed on a store of CoveragePool active quizzes and one
\* group, active or deactivated earlier; the window is empty.
InitCoverage ==
    /\ dbQuizzes = [i \in 1..CoveragePool |-> Quiz(i, Q0, TRUE, None)]
    /\ \E active \in BOOLEAN : dbGroups = <<Group(CoveragePool + 1, 1, active)>>
    /\ dbReports = <<>>
    /\ quizzes = dbQuizzes
    /\ groups = dbGroups
    /\ recently_sent_quizzes = <<>>
    /\ stats = load_stats
    /\ sched = schedIdle
    /\ handler = handlerIdle
    /\ broadcast_mode = FALSE
    /\ now = 1
    /\ nextId = CoveragePool + 2
    /\ hist = [histInit EXCEPT !.limit = CoverageCycles]
    /\ ret = noRet
    /\ SettingsLoaded(load_settings)

NextCoverage == SchedulerStep

SpecCoverage == InitCoverage /\ [][NextCoverage]_vars

SixCycles == Len(hist.picks) = CoverageCycles

\* C29: when six scheduler cycles have run on a pool of 4 active quizzes,
\* starting with an empty window, each of the 4 quizzes has been selected
\* at least once.
C29_AllSelectedInSixCycles ==
    SixCycles => \A q \in Range(dbQuizzes) : InSeq(q.id, hist.picks)

C29_Witness ==
    /\ SixCycles
    /\ hist.picks = <<2, 4, 1, 3, 3, 2>>

\* Positions at which a quiz was selected in two consecutive cycles.
Repeats(picks) == {i \in 1..(Len(picks) - 1) : picks[i] = picks[i + 1]}

\* C30: in six scheduler cycles on a pool of 4 active quizzes, starting
\* with an empty window, there is at most one position at which the same
\* quiz is selected in two consecutive cycles.
C30_AtMostOneRepeat ==
    SixCycles => Cardinality(Repeats(hist.picks)) <= 1

----------------------------------------------------------------------------
(* Group registry: /start in a group chat, the "Remove from Group" button *)

MaxJoins == 1         \* /start commands in group chats in a run
MaxPresses == 1       \* presses of a "Remove from Group" button in a run
GroupChats == 2       \* group chats the bot is a member of

ExistingNone(coll, chat) == <<>>

\* find_one('groups', {'chat_id': chat_id}), as the list of what it returns:
\* the first stored group of the chat, or nothing at all.
ExistingGroup(coll, chat) ==
    IF GroupsOfChat(coll, chat) = <<>> THEN <<>>
    ELSE <<Head(GroupsOfChat(coll, chat))>>

\* delete_one('groups', {'chat_id': chat_id}): the first match goes.
DeleteOneOfChat(coll, chat) ==
    LET m == {i \in 1..Len(coll) : coll[i].chat_id = chat}
    IN  IF m = {} THEN coll
        ELSE LET k == CHOOSE i \in m : \A j \in m : i <= j
             IN  SubSeq(coll, 1, k - 1) \o SubSeq(coll, k + 1, Len(coll))

\* /start in group chat `chat`: start hands over to add_to_group, which runs
\* up to the await of reply_text (lines 333-335, 337-367).
AddToGroup(chat) ==
    /\ handler.pc = "idle"
    /\ hist.joins < MaxJoins
    /\ LET existing_group == ExistingGroup(dbGroups, chat)
       IN  IF existing_group # <<>>
           THEN /\ dbGroups' = ReplaceOne(dbGroups,
                                  [Head(existing_group) EXCEPT !.is_active = TRUE])
                /\ UNCHANGED nextId
           ELSE /\ dbGroups' = Append(dbGroups, Group(nextId, chat, TRUE))
                /\ nextId' = nextId + 1
    /\ groups' = dbGroups'
    /\ sched' = [sched EXCEPT !.cur = FALSE]
    /\ hist' = [hist EXCEPT !.joins = @ + 1]
    /\ UNCHANGED <<dbQuizzes, dbReports, quizzes, recently_sent_quizzes, stats,
                   handler, broadcast_mode, now, ret>>
    /\ UNCHANGED intervalVars

\* A press of the button "Remove from Group" of chat `chat`: button_handler
\* answers the query and hands over to remove_group (lines 2070-2074,
\* 2122-2124, 2153-2156).  The keyboard is part of the welcome message in
\* the group chat (lines 370-376); admin says whether the user who pressed
\* is ADMIN_USER_ID, which neither function reads.
RemoveGroup(admin, chat) ==
    /\ handler.pc = "idle"
    /\ hist.presses < MaxPresses
    /\ dbGroups' = DeleteOneOfChat(dbGroups, chat)
    /\ groups' = dbGroups'
    /\ sched' = [sched EXCEPT !.cur = FALSE]
    /\ hist' = [hist EXCEPT !.presses = @ + 1, !.admin = admin]
    /\ UNCHANGED <<dbQuizzes, dbReports, quizzes, recently_sent_quizzes, stats,
                   handler, broadcast_mode, now, nextId, ret>>
    /\ UNCHANGED intervalVars

\* The store holds one group, of chat 1; chat 2 has none.
InitGroups == Constructed(DispatchPool, <<Group(PoolSize + 1, 1, TRUE)>>, <<>>)

GroupStep ==
    \/ \E chat \in 1..GroupChats : AddToGroup(chat)
    \/ \E admin \in BOOLEAN, chat \in 1..GroupChats : RemoveGroup(admin, chat)

GroupManualStep ==
    \/ \E chat \in 1..GroupChats : ManualBegin(chat)
    \/ ManualSelect
    \/ \E ok \in BOOLEAN : ManualSent(ok)

NextGroups == SchedulerStep \/ GroupManualStep \/ GroupStep

SpecGroups == InitGroups /\ [][NextGroups]_vars

ChatsOf(coll) == {coll[i].chat_id : i \in 1..Len(coll)}

\* C31: the stored groups hold at most one record per chat id, whatever
\* /start commands in group chats, /rquiz commands in chats without a group,
\* removals and re-additions have happened.
C31_OneGroupPerChat ==
    \A i, j \in 1..Len(dbGroups) : dbGroups[i].chat_id = dbGroups[j].chat_id => i = j

\* Chat 1 was removed and added again, and chat 2 has a group as well.
C31_Witness ==
    /\ hist.presses > 0
    /\ hist.joins > 0
    /\ ChatsOf(dbGroups) = 1..GroupChats
    /\ \E g \in Range(dbGroups) : g.chat_id = 1 /\ g.id # PoolSize + 1

----------------------------------------------------------------------------
(* SpecIdle: scheduler cycles with nothing to send, or nobody to send to *)

\* The store holds no quiz or PoolSize quizzes, each active or not, and no
\* group or two groups, each active or deactivated earlier.
IdlePools ==
    {<<>>} \cup {[i \in 1..PoolSize |-> Quiz(i, Q0, f[i], None)] :
                    f \in [1..PoolSize -> BOOLEAN]}

IdleGroups ==
    {<<>>} \cup {[i \in 1..2 |-> Group(PoolSize + i, i, f[i])] :
                    f \in [1..2 -> BOOLEAN]}

InitIdle == \E qs \in IdlePools, gs \in IdleGroups : Constructed(qs, gs, <<>>)

NextIdle == SchedulerStep \/ FaultyStep

SpecIdle == InitIdle /\ [][NextIdle]_vars

\* The cache holds no quiz, or no group, or no quiz whose is_active is set.
NothingToSend ==
    \/ quizzes = <<>>
    \/ groups = <<>>
    \/ \A i \in 1..Len(quizzes) : ~quizzes[i].is_active

\* C32: a scheduler cycle that finds no quiz in the cache, no registered
\* group or no active quiz ends without raising (the scheduler task goes
\* back to sleep) and changes no quiz, no group, no statistic and not the
\* recent-sent window.
C32_SkippedCycleChangesNothing ==
    [][(Scheduled /\ NothingToSend) =>
          /\ sched'.pc = "waiting"
          /\ hist'.sched.state = "skipped"
          /\ dbQuizzes' = dbQuizzes /\ quizzes' = quizzes
          /\ dbGroups' = dbGroups /\ groups' = groups
          /\ stats' = stats
          /\ recently_sent_quizzes' = recently_sent_quizzes]_vars

\* A cycle was skipped although quizzes and groups are stored: no quiz is
\* active.
C32_Witness ==
    /\ hist.cycles > 0
    /\ hist.sched.state = "skipped"
    /\ quizzes # <<>>
    /\ groups # <<>>
    /\ sched.pc = "waiting"

\* A cycle found groups, none of them active.
NoActiveGroup == groups # <<>> /\ \A i \in 1..Len(groups) : ~groups[i].is_active

\* C33: a scheduler cycle in which groups are registered but none is active
\* changes no quiz's sent_count or last_sent, not the recent-sent window and
\* not total_quizzes_sent.
C33_NoActiveGroupChangesNothing ==
    [][(Scheduled /\ NoActiveGroup) =>
          /\ dbQuizzes' = dbQuizzes /\ quizzes' = quizzes
          /\ recently_sent_quizzes' = recently_sent_quizzes
          /\ stats'.total_quizzes_sent = stats.total_quizzes_sent]_vars

----------------------------------------------------------------------------
(* Claims about /rquiz and the stored group records *)

\* The send_poll call of the /rquiz in progress raises, and no scheduler
\* cycle has started since the command arrived.
ManualFails ==
    /\ hist.manual.state = "running"
    /\ hist'.manual.state = "failed"
    /\ hist'.cycles = hist.manual.cycle

\* C34: a /rquiz whose delivery fails leaves every quiz's manual_sent_count
\* and last_sent, the manual_quizzes_received of the chat's group,
\* manual_quizzes_sent and the recent-sent window as they were when the
\* command arrived.
C34_FailedManualSendChangesNothing ==
    [][ManualFails =>
          /\ Len(dbQuizzes') = Len(hist.manual.quizzes)
          /\ \A i \in 1..Len(dbQuizzes') :
                /\ dbQuizzes'[i].manual_sent_count = hist.manual.quizzes[i].manual_sent_count
                /\ dbQuizzes'[i].last_sent = hist.manual.quizzes[i].last_sent
          /\ \A i \in 1..Len(dbGroups') :
                dbGroups'[i].chat_id = hist.manual.chat =>
                    dbGroups'[i].manual_quizzes_received = hist.manual.received
          /\ stats'.manual_quizzes_sent = hist.manual.total
          /\ recently_sent_quizzes' = hist.manual.window]_vars

\* Neither the scheduler task nor a handler is in the middle of its work.
Quiet == sched.pc = "waiting" /\ handler.pc = "idle"

Tally(eng, chat) == IF chat \in DOMAIN eng THEN eng[chat] ELSE 0

\* C35: however a scheduled batch and a /rquiz in a group of that batch
\* interleave, once both are over the stored group shows every delivery:
\* manual_quizzes_received is at least the number of /rquiz polls delivered
\* to the chat, and quizzes_received is the number of polls delivered to it
\* by both paths.  (Stated for groups that were never removed.)
C35_NoLostGroupUpdate ==
    (Quiet /\ hist.presses = 0) =>
        \A i \in 1..Len(dbGroups) :
            /\ dbGroups[i].manual_quizzes_received >=
                  Occurrences(hist.manual.delivered, dbGroups[i].chat_id)
            /\ dbGroups[i].quizzes_received =
                  Tally(stats.group_engagement, dbGroups[i].chat_id)

----------------------------------------------------------------------------
(* Claims about what a resolution leaves of a pending report *)

\* A resolution button is pressed for a stored report that is pending; for
\* "Delete All" it is the button of the list of similar quizzes the
\* operator has just been shown for that report (lines 938-942).
ResolvesPending ==
    /\ ret'.op \in ResolutionOps
    /\ ret'.found
    /\ StatusOf(dbReports, ret'.rid) = "pending"
    /\ ret'.op = "delete_similar" =>
          ret.op = "view_similar" /\ ret.rid = ret'.rid /\ ret.list # <<>>

\* C36: delete, delete-similar and ignore each leave the pending report
\* they are applied to in a status other than pending, so that the list of
\* pending reports no longer shows it.
C36_ResolutionLeavesNonPending ==
    [][ResolvesPending => StatusOf(dbReports', ret'.rid) # "pending"]_vars

----------------------------------------------------------------------------
(* Claims about reactivated groups and about who presses a button *)

\* send_random_quiz has selected a quiz and taken its active_groups.
BatchStarts == Scheduled /\ hist'.sched.state \in {"running", "done"}

\* The group of chat `chat` failed in the latest batch, a /rquiz in the chat
\* has switched it back to active, the store still says so, and no
\* scheduler cycle has started since.
ReactivatedAfterFailure(chat) ==
    /\ hist.reactivated.chat = chat
    /\ hist.reactivated.cycle = hist.cycles
    /\ chat \in hist.sched.failed
    /\ \E i \in 1..Len(dbGroups) :
          dbGroups[i].chat_id = chat /\ dbGroups[i].is_active

\* C37: a group that a delivery failure deactivated and a /rquiz in the
\* group reactivated is one of the groups of the next scheduled batch that
\* starts after the reactivation.
C37_ReactivatedGroupInNextBatch ==
    [][\A chat \in 1..GroupChats :
          (BatchStarts /\ ReactivatedAfterFailure(chat)) =>
              \E i \in 1..Len(hist'.sched.n) : hist'.sched.n[i] = chat]_vars

\* A "Remove from Group" button has been pressed.
Pressed == hist'.presses # hist.presses

\* C38: a button press by a user other than the administrator changes no
\* stored group, quiz or report.
C38_OnlyAdminButtonsTakeEffect ==
    [][(Pressed /\ ~hist'.admin) =>
          /\ dbGroups' = dbGroups
          /\ dbQuizzes' = dbQuizzes
          /\ dbReports' = dbReports]_vars

====
